---- MODULE Spec2Model ----
(***************************************************************************)
(* Model of the in-memory bitemporal key-value store (package memory) and  *)
(* of the test clock (package test).                                       *)
(*                                                                         *)
(* Time instants are naturals; 0 is the zero value of time.Time.  A *time  *)
(* pointer that is nil (an open interval end, an option that was not       *)
(* given) is Nil.                                                          *)
(***************************************************************************)
EXTENDS Integers, Sequences, FiniteSets, TLC

\* ------------------------------------------------------------------ bounds
\* latest instant the clock is set to and the options name
MaxT == 3
\* number of Set/Delete calls made in one behaviour
MaxOps == 2
\* number of seed records handed to NewDB
MaxSeeds == 1
\* number of calls the concurrent callers make in one behaviour when every call,
\* reads and TestClock.SetNow included, is counted
MaxCalls == 3
\* latest instant of the seed records handed to the constructor on its own
MaxCtorT == 2
\* number of seed records handed to the constructor on its own
MaxCtorSeeds == 2

\* ------------------------------------------------------------------ values
Nil == -1
Times == 0..MaxT
OptTimes == Times \cup {Nil}
Procs == {"p1", "p2"}
Keys == {"a", "b"}
\* the key the concurrent callers write and read
RaceKeys == {"a"}
\* the key of the seed records
SeedKeys == {"a"}
\* the keys a caller may pass: the empty key is never stored
CallKeys == Keys \cup {""}
Values == {"x", "y"}
\* a nil Value: what Delete hands to update, and a payload a caller may Set
NilValue == "nil"
\* the value of the seed records
SeedValues == {"s"}
NoProc == "none"

\* bt.VersionedKV
VersionedKV(key, value, txStart, txEnd, vtStart, vtEnd) ==
    [Key |-> key, Value |-> value, TxTimeStart |-> txStart, TxTimeEnd |-> txEnd,
     ValidTimeStart |-> vtStart, ValidTimeEnd |-> vtEnd]

\* timeRange: start is inclusive, end is exclusive (Nil: open)
timeRange(start, end) == [start |-> start, end |-> end]

\* ------------------------------------------------------------------ helpers of DB
\* a variant of Validate that does not require a key
Validate_anyKey(d) ==
    /\ d.TxTimeStart # 0
    /\ (d.TxTimeEnd # Nil => (d.TxTimeEnd # 0 /\ d.TxTimeStart < d.TxTimeEnd))
    /\ d.ValidTimeStart # 0
    /\ (d.ValidTimeEnd # Nil => (d.ValidTimeEnd # 0 /\ d.ValidTimeStart < d.ValidTimeEnd))

\* a variant of Validate that lets the zero time pass as the start of the valid time
Validate_zeroValidTime(d) ==
    /\ d.Key # ""
    /\ d.TxTimeStart # 0
    /\ (d.TxTimeEnd # Nil => (d.TxTimeEnd # 0 /\ d.TxTimeStart < d.TxTimeEnd))
    /\ (d.ValidTimeEnd # Nil => (d.ValidTimeEnd # 0 /\ d.ValidTimeStart < d.ValidTimeEnd))

\* VersionedKV.Validate: TRUE iff it returns no error
Validate(d) ==
    /\ d.Key # ""
    /\ d.TxTimeStart # 0
    /\ (d.TxTimeEnd # Nil => (d.TxTimeEnd # 0 /\ d.TxTimeStart < d.TxTimeEnd))
    /\ d.ValidTimeStart # 0
    /\ (d.ValidTimeEnd # Nil => (d.ValidTimeEnd # 0 /\ d.ValidTimeStart < d.ValidTimeEnd))

\* a variant of isInRange that takes the end of the range as part of it
isInRange_closedEnd(t, r) ==
    (t = r.start \/ t > r.start) /\ (r.end = Nil \/ t < r.end \/ t = r.end)

\* a variant of isInRange that leaves the start of the range out of it
isInRange_afterStart(t, r) ==
    t > r.start /\ (r.end = Nil \/ t < r.end)

isInRange(t, r) ==
    (t = r.start \/ t > r.start) /\ (r.end = Nil \/ t < r.end)

\* a variant of rangesOverlap that takes a nil end for "no interval" instead of open
rangesOverlap_nilEnd(x, y) ==
    (y.end # Nil /\ x.start < y.end) /\ (x.end # Nil /\ y.start < x.end)

\* hasOverlap's first result
rangesOverlap(x, y) ==
    (y.end = Nil \/ x.start < y.end) /\ (x.end = Nil \/ y.start < x.end)

\* a variant of hasOverlap that finds no overhang after x in a y that has no end
hasOverlap_closedOverhang(x, y) ==
    IF rangesOverlap(x, y)
    THEN [hasOverlap |-> TRUE,
          yOverhangs |->
              (IF y.start < x.start THEN <<timeRange(y.start, x.start)>> ELSE <<>>)
              \o (IF x.end # Nil /\ y.end # Nil /\ x.end < y.end
                  THEN <<timeRange(x.end, y.end)>> ELSE <<>>)]
    ELSE [hasOverlap |-> FALSE, yOverhangs |-> <<>>]

\* a variant of hasOverlap that leaves out the part of y before x
hasOverlap_noLeftOverhang(x, y) ==
    IF rangesOverlap(x, y)
    THEN [hasOverlap |-> TRUE,
          yOverhangs |->
              IF x.end # Nil /\ (y.end = Nil \/ x.end < y.end)
              THEN <<timeRange(x.end, y.end)>> ELSE <<>>]
    ELSE [hasOverlap |-> FALSE, yOverhangs |-> <<>>]

\* hasOverlap: yOverhangs are the intervals within y that are not in x
hasOverlap(x, y) ==
    IF rangesOverlap(x, y)
    THEN [hasOverlap |-> TRUE,
          yOverhangs |->
              (IF y.start < x.start THEN <<timeRange(y.start, x.start)>> ELSE <<>>)
              \o (IF x.end # Nil /\ (y.end = Nil \/ x.end < y.end)
                  THEN <<timeRange(x.end, y.end)>> ELSE <<>>)]
    ELSE [hasOverlap |-> FALSE, yOverhangs |-> <<>>]

txRange(v) == timeRange(v.TxTimeStart, v.TxTimeEnd)
validRange(v) == timeRange(v.ValidTimeStart, v.ValidTimeEnd)

\* a variant of assertNoOverlap that compares the candidate with the records of the
\* current snapshot only (those whose transaction time is open)
assertNoOverlap_openOnly(candidate, xs) ==
    \A n \in 1..Len(xs) :
        ~(/\ xs[n].TxTimeEnd = Nil
          /\ hasOverlap(txRange(candidate), txRange(xs[n])).hasOverlap
          /\ hasOverlap(validRange(candidate), validRange(xs[n])).hasOverlap)

\* assertNoOverlap: TRUE iff it returns no error
assertNoOverlap(candidate, xs) ==
    \A n \in 1..Len(xs) :
        ~(/\ hasOverlap(txRange(candidate), txRange(xs[n])).hasOverlap
          /\ hasOverlap(validRange(candidate), validRange(xs[n])).hasOverlap)

\* findVersionByTime: the record containing (validTime, txTime), ErrNotFound
\* when there is none, an error when a second one is met
ErrNotFound == "not found"
ErrMultiple == "multiple versions matched"
NoVersion == [Key |-> ""]
\* a variant of findVersionByTime that returns the first record stored for the
\* valid time, whether its transaction time has ended or not
findVersionByTime_firstStored(vs, validTime, txTime) ==
    LET hit(v) == isInRange(validTime, validRange(v)) /\ v.TxTimeStart <= txTime
        out == SelectSeq(vs, hit)
    IN  IF Len(out) = 0 THEN [err |-> ErrNotFound, v |-> NoVersion]
        ELSE [err |-> "", v |-> out[1]]

findVersionByTime(vs, validTime, txTime) ==
    LET hit(v) == isInRange(validTime, validRange(v)) /\ isInRange(txTime, txRange(v))
        out == SelectSeq(vs, hit)
    IN  IF Len(out) = 0 THEN [err |-> ErrNotFound, v |-> NoVersion]
        ELSE IF Len(out) > 1 THEN [err |-> ErrMultiple, v |-> NoVersion]
        ELSE [err |-> "", v |-> out[1]]

\* findOverlappingValidTimeVersions: v is the position of the record in vs (the
\* code keeps a pointer to it)
RECURSIVE overlappingFrom(_, _, _, _, _)
overlappingFrom(vs, n, validTimeStart, validTimeEnd, txTime) ==
    IF n > Len(vs) THEN <<>>
    ELSE LET r == hasOverlap(timeRange(validTimeStart, validTimeEnd), validRange(vs[n]))
             rest == overlappingFrom(vs, n + 1, validTimeStart, validTimeEnd, txTime)
         IN  IF ~isInRange(txTime, txRange(vs[n])) THEN rest
             ELSE IF ~r.hasOverlap THEN rest
             ELSE <<[v |-> n, overhangs |-> r.yOverhangs]>> \o rest

\* a variant of findOverlappingValidTimeVersions that takes every record of the
\* transaction time, whether its valid time overlaps or not
findOverlappingValidTimeVersions_anyValidTime(vs, validTimeStart, validTimeEnd, txTime) ==
    LET RECURSIVE from(_)
        from(n) ==
            IF n > Len(vs) THEN <<>>
            ELSE IF ~isInRange(txTime, txRange(vs[n])) THEN from(n + 1)
            ELSE <<[v |-> n,
                    overhangs |-> hasOverlap(timeRange(validTimeStart, validTimeEnd),
                                             validRange(vs[n])).yOverhangs]>> \o from(n + 1)
    IN  from(1)

\* a variant of findOverlappingValidTimeVersions that takes the records whose
\* transaction time has no end, instead of those whose transaction time contains
\* txTime
findOverlappingValidTimeVersions_openOnly(vs, validTimeStart, validTimeEnd, txTime) ==
    LET RECURSIVE from(_)
        from(n) ==
            IF n > Len(vs) THEN <<>>
            ELSE LET r == hasOverlap(timeRange(validTimeStart, validTimeEnd), validRange(vs[n]))
                 IN  IF vs[n].TxTimeEnd # Nil THEN from(n + 1)
                     ELSE IF ~r.hasOverlap THEN from(n + 1)
                     ELSE <<[v |-> n, overhangs |-> r.yOverhangs]>> \o from(n + 1)
    IN  from(1)

findOverlappingValidTimeVersions(vs, validTimeStart, validTimeEnd, txTime) ==
    overlappingFrom(vs, 1, validTimeStart, validTimeEnd, txTime)

\* a variant of closeVersion that ends the transaction time of a copy of the record
closeVersion_copy(v, now) == v

\* a variant of closeVersion that ends the transaction time at a later reading of
\* the clock
closeVersion_laterNow(v, now) == [v EXCEPT !.TxTimeEnd = now + 1]

\* update, line 150: the record with its transaction time ended at now
closeVersion(v, now) == [v EXCEPT !.TxTimeEnd = now]

\* update, lines 153-160: the record of an overhang of v
overhangVersion(key, v, now, overhang) ==
    VersionedKV(key, v.Value, now, Nil, overhang.start, overhang.end)

\* a variant of newVersion that stamps the record with the valid time
newVersion_validStamp(key, value, now, validTime, endValidTime) ==
    VersionedKV(key, value, validTime, Nil, validTime, endValidTime)

\* update, lines 174-181: the record of a Set
newVersion(key, value, now, validTime, endValidTime) ==
    VersionedKV(key, value, now, Nil, validTime, endValidTime)

\* a variant of handleWriteOpts that leaves the valid time at its default
handleWriteOpts_defaultValidTime(optValidTime, optEndValidTime, now) ==
    LET validTime == now
        endValidTime == optEndValidTime
    IN  IF endValidTime # Nil /\ ~(endValidTime > validTime)
        THEN [err |-> "valid time start must be before end"]
        ELSE IF endValidTime # Nil /\ endValidTime > now
        THEN [err |-> "valid time end cannot be in the future"]
        ELSE [err |-> "", validTime |-> validTime, endValidTime |-> endValidTime, now |-> now]

\* a variant of handleWriteOpts that lets the valid time end at its start
handleWriteOpts_endAtStart(optValidTime, optEndValidTime, now) ==
    LET validTime == IF optValidTime # Nil THEN optValidTime ELSE now
        endValidTime == optEndValidTime
    IN  IF endValidTime # Nil /\ endValidTime < validTime
        THEN [err |-> "valid time start must be before end"]
        ELSE IF validTime > now
        THEN [err |-> "valid time start cannot be in the future"]
        ELSE IF endValidTime # Nil /\ endValidTime > now
        THEN [err |-> "valid time end cannot be in the future"]
        ELSE [err |-> "", validTime |-> validTime, endValidTime |-> endValidTime, now |-> now]

\* a variant of handleWriteOpts that lets the valid time start in the future
handleWriteOpts_futureStart(optValidTime, optEndValidTime, now) ==
    LET validTime == IF optValidTime # Nil THEN optValidTime ELSE now
        endValidTime == optEndValidTime
    IN  IF endValidTime # Nil /\ ~(endValidTime > validTime)
        THEN [err |-> "valid time start must be before end"]
        ELSE IF endValidTime # Nil /\ endValidTime > now
        THEN [err |-> "valid time end cannot be in the future"]
        ELSE [err |-> "", validTime |-> validTime, endValidTime |-> endValidTime, now |-> now]

\* a variant of handleWriteOpts whose valid time ends one instant after it starts
\* when no end is given
handleWriteOpts_defaultEnd(optValidTime, optEndValidTime, now) ==
    LET validTime == IF optValidTime # Nil THEN optValidTime ELSE now
        endValidTime == IF optEndValidTime # Nil THEN optEndValidTime ELSE validTime + 1
    IN  IF ~(endValidTime > validTime)
        THEN [err |-> "valid time start must be before end"]
        ELSE IF validTime > now
        THEN [err |-> "valid time start cannot be in the future"]
        ELSE IF optEndValidTime # Nil /\ endValidTime > now
        THEN [err |-> "valid time end cannot be in the future"]
        ELSE [err |-> "", validTime |-> validTime, endValidTime |-> endValidTime, now |-> now]

\* handleWriteOpts, given the options and the instant the clock returned
handleWriteOpts(optValidTime, optEndValidTime, now) ==
    LET validTime == IF optValidTime # Nil THEN optValidTime ELSE now
        endValidTime == optEndValidTime
    IN  IF endValidTime # Nil /\ ~(endValidTime > validTime)
        THEN [err |-> "valid time start must be before end"]
        ELSE IF validTime > now
        THEN [err |-> "valid time start cannot be in the future"]
        ELSE IF endValidTime # Nil /\ endValidTime > now
        THEN [err |-> "valid time end cannot be in the future"]
        ELSE [err |-> "", validTime |-> validTime, endValidTime |-> endValidTime, now |-> now]

\* DB.Get on the records vKVs holds, with the times handleReadOpts resolved
Get(kvs, key, validTime, txTime) ==
    IF Len(kvs[key]) = 0 THEN [err |-> ErrNotFound, v |-> NoVersion]
    ELSE findVersionByTime(kvs[key], validTime, txTime)

\* a variant of List that gives up at the first key without a version
List_stopAtNotFound(kvs, validTime, txTime) ==
    LET res(k) == findVersionByTime(kvs[k], validTime, txTime)
    IN  IF \E k \in DOMAIN kvs : res(k).err \notin {"", ErrNotFound}
        THEN [err |-> ErrMultiple, out |-> {}]
        ELSE IF \E k \in DOMAIN kvs : Len(kvs[k]) > 0 /\ res(k).err = ErrNotFound
        THEN [err |-> "", out |-> {}]
        ELSE [err |-> "", out |-> {res(k).v : k \in {q \in DOMAIN kvs : res(q).err = ""}}]

\* DB.List on the records kvs holds, with the times handleReadOpts resolved.  The
\* loop ranges over a map, so the order of the records in the result is not
\* determined: out is the set of them.  A key without records is not in the map.
List(kvs, validTime, txTime) ==
    LET res(k) == findVersionByTime(kvs[k], validTime, txTime)
    IN  IF \E k \in DOMAIN kvs : res(k).err \notin {"", ErrNotFound}
        THEN [err |-> ErrMultiple, out |-> {}]
        ELSE [err |-> "", out |-> {res(k).v : k \in {q \in DOMAIN kvs : res(q).err = ""}}]

\* NewDB's loop over the seed records, from the n-th on: db is the map built so far
RECURSIVE NewDBFrom(_, _, _)
NewDBFrom(versionedKVs, n, db) ==
    IF n > Len(versionedKVs) THEN [err |-> "", vKVs |-> db]
    ELSE LET kv == versionedKVs[n]
         IN  IF ~Validate(kv) THEN [err |-> "invalid versioned key-value", vKVs |-> db]
             ELSE IF ~assertNoOverlap(kv, db[kv.Key])
             THEN [err |-> "versioned values overlap", vKVs |-> db]
             ELSE NewDBFrom(versionedKVs, n + 1, [db EXCEPT ![kv.Key] = Append(@, kv)])

\* a variant of NewDB that compares a seed with the seeds of every key
NewDB_anyKey(versionedKVs) ==
    LET RECURSIVE from(_, _, _)
        from(n, db, all) ==
            IF n > Len(versionedKVs) THEN [err |-> "", vKVs |-> db]
            ELSE LET kv == versionedKVs[n]
                 IN  IF ~Validate(kv) THEN [err |-> "invalid versioned key-value", vKVs |-> db]
                     ELSE IF ~assertNoOverlap(kv, all)
                     THEN [err |-> "versioned values overlap", vKVs |-> db]
                     ELSE from(n + 1, [db EXCEPT ![kv.Key] = Append(@, kv)], Append(all, kv))
    IN  from(1, [k \in CallKeys |-> <<>>], <<>>)

\* NewDB(WithVersionedKVs(versionedKVs), WithClock(clock))
NewDB(versionedKVs) ==
    NewDBFrom(versionedKVs, 1, [k \in CallKeys |-> <<>>])

\* a variant of History that does not know a key all of whose records are closed
History_unknownWhenClosed(kvs, ptrs, key) ==
    IF \A n \in 1..Len(kvs[key]) : kvs[key][n].TxTimeEnd # Nil
    THEN [err |-> ErrNotFound, out |-> <<>>]
    ELSE [err |-> "", out |-> kvs[key]]

\* a variant of History that returns the current records only (TxTimeEnd is nil)
History_current(kvs, ptrs, key) ==
    LET open(v) == v.TxTimeEnd = Nil
    IN  IF Len(kvs[key]) = 0 THEN [err |-> ErrNotFound, out |-> <<>>]
        ELSE [err |-> "", out |-> SelectSeq(kvs[key], open)]

\* DB.History on the records kvs holds, ptrs being what their TxTimeEnd point to.
\* sort.Slice (go 1.17, a slice of at most 12 elements): a pass that compares the
\* elements 6 apart, then an insertion sort; less is the function History hands to
\* it, which compares the TxTimeEnd pointers themselves where it tests them for
\* equality.
History(kvs, ptrs, key) ==
    LET vs == kvs[key]
        less(x, y) ==
            \/ (vs[y].TxTimeEnd # Nil /\ vs[x].TxTimeEnd # Nil
                    /\ vs[y].TxTimeEnd < vs[x].TxTimeEnd)
            \/ (vs[y].TxTimeEnd # Nil /\ vs[x].TxTimeEnd = Nil)
            \/ (ptrs[key][y] = ptrs[key][x]
                    /\ (vs[y].ValidTimeEnd # Nil /\ vs[x].ValidTimeEnd # Nil
                           /\ vs[y].ValidTimeEnd < vs[x].ValidTimeEnd))
            \/ (vs[y].ValidTimeEnd # Nil /\ vs[x].ValidTimeEnd = Nil)
        swap(out, i, j) == [out EXCEPT ![i] = out[j], ![j] = out[i]]
        RECURSIVE gapPass(_, _)
        gapPass(out, i) ==
            IF i > Len(out) THEN out
            ELSE gapPass(IF less(out[i], out[i - 6]) THEN swap(out, i, i - 6) ELSE out, i + 1)
        RECURSIVE sink(_, _)
        sink(out, j) ==
            IF j > 1 /\ less(out[j], out[j - 1]) THEN sink(swap(out, j, j - 1), j - 1)
            ELSE out
        RECURSIVE insertionSort(_, _)
        insertionSort(out, i) ==
            IF i > Len(out) THEN out ELSE insertionSort(sink(out, i), i + 1)
        order == insertionSort(gapPass([n \in 1..Len(vs) |-> n], 7), 2)
    IN  IF Len(vs) = 0 THEN [err |-> ErrNotFound, out |-> <<>>]
        ELSE [err |-> "", out |-> [n \in 1..Len(vs) |-> vs[order[n]]]]

\* what a caller sees of a Get: the value, or the error
Seen(res) == IF res.err = "" THEN res.v.Value ELSE res.err

\* a variant of TestClockSetNow that stores any instant
TestClockSetNow_anyTime(now, t) == [err |-> FALSE, now |-> t]

\* TestClock.SetNow
TestClockSetNow(now, t) ==
    IF now > t THEN [err |-> TRUE, now |-> now] ELSE [err |-> FALSE, now |-> t]

\* ------------------------------------------------------------------ state
VARIABLES
    vKVs,      \* DB.vKVs: key -> the records of the key, in the order they were appended
    txEndPtr,  \* key -> for each record of the key, the variable its TxTimeEnd points
               \* to: NilPtr, the now of the update call that closed it (the number of
               \* the call), or the variable the seed was built from (SeedPtr)
    ctor,      \* the call of NewDB that constructed the store: the seed records it
               \* was given and the error it returned (NoCtor: it was not called yet)
    clock,     \* TestClock.now
    cm,        \* TestClock.m: the caller holding the lock to write (or NoProc) and the
               \* callers holding it to read
    m,         \* DB.m: the writer holding the lock (or NoProc) and the readers holding it
    pc,        \* where each caller is: "idle"; "lock": in update, before db.m.Lock();
               \* "commit": in update, holding the lock; "unlock": update has its result,
               \* the deferred db.m.Unlock() has not run; "failed": handleWriteOpts
               \* returned an error; "rlock": in Get, before db.m.RLock(); "read": Get has
               \* its result, the deferred db.m.RUnlock() has not run; "list" and
               \* "listed", "history" and "sorted": the same two places in List and in
               \* History; "now": in TestClock.Now, before c.m.RLock(); "nowread":
               \* in Now, holding the clock's lock; "setnow": in TestClock.SetNow, before
               \* c.m.Lock(); "setting": in SetNow, holding the clock's lock
    op,        \* each caller's call: its arguments and what handleWriteOpts /
               \* handleReadOpts made of them
    ret,       \* what the call returns
    plan,      \* update's overlappingVs
    pos,       \* update's position in its two loops: i over overlappingVs, j over
               \* overlappingVs[i].overhangs (0: overlappingVs[i] is not closed yet)
    snap,      \* the key's records when update took the lock (history)
    applied,   \* how many changes the caller's update has made to vKVs (history)
    torn,      \* some update has returned an error after changing vKVs (history)
    maxNow,    \* the latest now of the updates that have changed vKVs and released the
               \* lock (history)
    nOps       \* the Set/Delete calls made so far

vars == <<vKVs, txEndPtr, ctor, clock, cm, m, pc, op, ret, plan, pos, snap, applied,
          torn, maxNow, nOps>>

NoOp == [kind |-> "none", key |-> "", value |-> "nil", optValidTime |-> Nil,
         optEndValidTime |-> Nil, validTime |-> Nil, endValidTime |-> Nil, now |-> Nil,
         call |-> 0]
NoRet == "none"
\* a nil *time.Time
NilPtr == 0
\* the seed records are built from the instants the caller holds in variables (as the
\* fixtures of the tests are, from t0..t5): a TxTimeEnd points to the variable of its
\* instant
SeedPtr(v) == IF v.TxTimeEnd = Nil THEN NilPtr ELSE 0 - v.TxTimeEnd
StartPos == [i |-> 1, j |-> 0]

\* the callers, the lock and the history variables before any call
InitCallers ==
    /\ clock = 0
    /\ cm = [writer |-> NoProc, readers |-> {}]
    /\ m = [writer |-> NoProc, readers |-> {}]
    /\ pc = [p \in Procs |-> "idle"]
    /\ op = [p \in Procs |-> NoOp]
    /\ ret = [p \in Procs |-> NoRet]
    /\ plan = [p \in Procs |-> <<>>]
    /\ pos = [p \in Procs |-> StartPos]
    /\ snap = [p \in Procs |-> <<>>]
    /\ applied = [p \in Procs |-> 0]
    /\ torn = FALSE
    /\ maxNow = 0
    /\ nOps = 0

\* NewDB with a test.TestClock{} (its now is the zero time) and no records
Init ==
    /\ vKVs = [k \in CallKeys |-> <<>>]
    /\ txEndPtr = [k \in CallKeys |-> <<>>]
    /\ ctor = [seeds |-> <<>>, err |-> ""]
    /\ InitCallers

\* ------------------------------------------------------------------ update
\* the changes update is going to make: one per record to close, one per overhang,
\* one for the new record of a Set
Planned(p) ==
    LET RECURSIVE count(_)
        count(n) == IF n > Len(plan[p]) THEN 0
                    ELSE 1 + Len(plan[p][n].overhangs) + count(n + 1)
    IN  count(1) + (IF op[p].kind = "set" THEN 1 ELSE 0)

\* update, lines 133-137: handleWriteOpts reads the clock and checks the options
update(p, key, value, isDelete, optValidTime, optEndValidTime) ==
    LET cfg == handleWriteOpts(optValidTime, optEndValidTime, clock)
        call == [kind |-> IF isDelete THEN "delete" ELSE "set", key |-> key,
                 value |-> value, optValidTime |-> optValidTime,
                 optEndValidTime |-> optEndValidTime, validTime |-> Nil,
                 endValidTime |-> Nil, now |-> Nil, call |-> nOps + 1]
    IN  /\ pc[p] = "idle"
        /\ nOps < MaxOps
        /\ nOps' = nOps + 1
        /\ IF cfg.err # ""
           THEN /\ op' = [op EXCEPT ![p] = call]
                /\ ret' = [ret EXCEPT ![p] = cfg.err]
                /\ pc' = [pc EXCEPT ![p] = "failed"]
           ELSE /\ op' = [op EXCEPT ![p] = [call EXCEPT !.validTime = cfg.validTime,
                                                        !.endValidTime = cfg.endValidTime,
                                                        !.now = cfg.now]]
                /\ ret' = ret
                /\ pc' = [pc EXCEPT ![p] = "lock"]
        /\ UNCHANGED <<vKVs, txEndPtr, ctor, clock, m, plan, pos, snap, applied, torn, maxNow, cm>>

Set(p, key, value, optValidTime, optEndValidTime) ==
    update(p, key, value, FALSE, optValidTime, optEndValidTime)

Delete(p, key, optValidTime, optEndValidTime) ==
    update(p, key, NilValue, TRUE, optValidTime, optEndValidTime)

\* update, lines 135-137: the error of handleWriteOpts is returned
UpdateFailed(p) ==
    /\ pc[p] = "failed"
    /\ pc' = [pc EXCEPT ![p] = "idle"]
    /\ op' = [op EXCEPT ![p] = NoOp]
    /\ ret' = [ret EXCEPT ![p] = NoRet]
    /\ UNCHANGED <<vKVs, txEndPtr, ctor, clock, m, plan, pos, snap, applied, torn, maxNow, nOps, cm>>

\* update, lines 139-146: db.m.Lock(), then the overlapping versions of the key
UpdateLock(p) ==
    /\ pc[p] = "lock"
    /\ m.writer = NoProc /\ m.readers = {}
    /\ m' = [m EXCEPT !.writer = p]
    /\ pc' = [pc EXCEPT ![p] = "commit"]
    /\ plan' = [plan EXCEPT ![p] =
           IF Len(vKVs[op[p].key]) > 0
           THEN findOverlappingValidTimeVersions(vKVs[op[p].key], op[p].validTime,
                                                 op[p].endValidTime, op[p].now)
           ELSE <<>>]
    /\ pos' = [pos EXCEPT ![p] = StartPos]
    /\ snap' = [snap EXCEPT ![p] = vKVs[op[p].key]]
    /\ UNCHANGED <<vKVs, txEndPtr, ctor, clock, op, ret, applied, torn, maxNow, nOps, cm>>

\* update reaches a return statement with err
UpdateReturn(p, err) ==
    /\ pc' = [pc EXCEPT ![p] = "unlock"]
    /\ ret' = [ret EXCEPT ![p] = err]

ErrValidate == "invalid versioned key-value"
ErrOverlap == "versioned values for the same key overlap tx time and valid time"

\* update, line 150: overlappingV.v.TxTimeEnd = &now
UpdateClose(p) ==
    LET key == op[p].key
        o == plan[p][pos[p].i]
    IN  /\ pc[p] = "commit"
        /\ pos[p].i <= Len(plan[p])
        /\ pos[p].j = 0
        /\ vKVs' = [vKVs EXCEPT ![key][o.v] = closeVersion(@, op[p].now)]
        /\ txEndPtr' = [txEndPtr EXCEPT ![key][o.v] = op[p].call]
        /\ applied' = [applied EXCEPT ![p] = @ + 1]
        /\ pos' = [pos EXCEPT ![p] = IF Len(o.overhangs) = 0
                                     THEN [i |-> @.i + 1, j |-> 0]
                                     ELSE [i |-> @.i, j |-> 1]]
        /\ UNCHANGED <<ctor, clock, m, pc, op, ret, plan, snap, torn, maxNow, nOps, cm>>

\* update, lines 152-168: one overhang of overlappingVs[i]
UpdateOverhang(p) ==
    LET key == op[p].key
        o == plan[p][pos[p].i]
        overhang == o.overhangs[pos[p].j]
        overhangV == overhangVersion(key, vKVs[key][o.v], op[p].now, overhang)
    IN  /\ pc[p] = "commit"
        /\ pos[p].i <= Len(plan[p])
        /\ pos[p].j >= 1
        /\ IF ~Validate(overhangV)
           THEN UpdateReturn(p, ErrValidate) /\ UNCHANGED <<vKVs, txEndPtr, ctor, applied, pos>>
           ELSE IF ~assertNoOverlap(overhangV, vKVs[key])
           THEN UpdateReturn(p, ErrOverlap) /\ UNCHANGED <<vKVs, txEndPtr, ctor, applied, pos>>
           ELSE /\ vKVs' = [vKVs EXCEPT ![key] = Append(@, overhangV)]
                /\ txEndPtr' = [txEndPtr EXCEPT ![key] = Append(@, NilPtr)]
                /\ applied' = [applied EXCEPT ![p] = @ + 1]
                /\ pos' = [pos EXCEPT ![p] = IF @.j = Len(o.overhangs)
                                             THEN [i |-> @.i + 1, j |-> 0]
                                             ELSE [i |-> @.i, j |-> @.j + 1]]
                /\ UNCHANGED <<pc, ret>>
        /\ UNCHANGED <<ctor, clock, m, op, plan, snap, torn, maxNow, nOps, cm>>

\* a variant of UpdateNew that adds nothing for a Set of a nil value either
UpdateNew_nilIsDelete(p) ==
    LET key == op[p].key
        newV == newVersion(key, op[p].value, op[p].now, op[p].validTime, op[p].endValidTime)
    IN  /\ pc[p] = "commit"
        /\ pos[p].i > Len(plan[p])
        /\ IF op[p].kind = "delete" \/ op[p].value = NilValue
           THEN UpdateReturn(p, "") /\ UNCHANGED <<vKVs, txEndPtr, applied>>
           ELSE IF ~Validate(newV)
           THEN UpdateReturn(p, ErrValidate) /\ UNCHANGED <<vKVs, txEndPtr, applied>>
           ELSE IF ~assertNoOverlap(newV, vKVs[key])
           THEN UpdateReturn(p, ErrOverlap) /\ UNCHANGED <<vKVs, txEndPtr, applied>>
           ELSE /\ vKVs' = [vKVs EXCEPT ![key] = Append(@, newV)]
                /\ txEndPtr' = [txEndPtr EXCEPT ![key] = Append(@, NilPtr)]
                /\ applied' = [applied EXCEPT ![p] = @ + 1]
                /\ UpdateReturn(p, "")
        /\ UNCHANGED <<ctor, clock, m, op, plan, pos, snap, torn, maxNow, nOps, cm>>

\* a variant of UpdateNew whose Set ends the transaction time of the current records
\* of the other keys as well
UpdateNew_otherKeys(p) ==
    LET key == op[p].key
        newV == newVersion(key, op[p].value, op[p].now, op[p].validTime, op[p].endValidTime)
    IN  /\ pc[p] = "commit"
        /\ pos[p].i > Len(plan[p])
        /\ IF op[p].kind = "delete"
           THEN UpdateReturn(p, "") /\ UNCHANGED <<vKVs, txEndPtr, ctor, applied>>
           ELSE IF ~Validate(newV)
           THEN UpdateReturn(p, ErrValidate) /\ UNCHANGED <<vKVs, txEndPtr, ctor, applied>>
           ELSE IF ~assertNoOverlap(newV, vKVs[key])
           THEN UpdateReturn(p, ErrOverlap) /\ UNCHANGED <<vKVs, txEndPtr, ctor, applied>>
           ELSE /\ vKVs' = [k \in DOMAIN vKVs |->
                       IF k = key THEN Append(vKVs[k], newV)
                       ELSE [n \in 1..Len(vKVs[k]) |->
                                IF vKVs[k][n].TxTimeEnd = Nil
                                THEN closeVersion(vKVs[k][n], op[p].now)
                                ELSE vKVs[k][n]]]
                /\ txEndPtr' = [txEndPtr EXCEPT ![key] = Append(@, NilPtr)]
                /\ applied' = [applied EXCEPT ![p] = @ + 1]
                /\ UpdateReturn(p, "")
        /\ UNCHANGED <<ctor, clock, m, op, plan, pos, snap, torn, maxNow, nOps, cm>>

\* update, lines 172-191: the new record of a Set, nothing for a Delete
UpdateNew(p) ==
    LET key == op[p].key
        newV == newVersion(key, op[p].value, op[p].now, op[p].validTime, op[p].endValidTime)
    IN  /\ pc[p] = "commit"
        /\ pos[p].i > Len(plan[p])
        /\ IF op[p].kind = "delete"
           THEN UpdateReturn(p, "") /\ UNCHANGED <<vKVs, txEndPtr, ctor, applied>>
           ELSE IF ~Validate(newV)
           THEN UpdateReturn(p, ErrValidate) /\ UNCHANGED <<vKVs, txEndPtr, ctor, applied>>
           ELSE IF ~assertNoOverlap(newV, vKVs[key])
           THEN UpdateReturn(p, ErrOverlap) /\ UNCHANGED <<vKVs, txEndPtr, ctor, applied>>
           ELSE /\ vKVs' = [vKVs EXCEPT ![key] = Append(@, newV)]
                /\ txEndPtr' = [txEndPtr EXCEPT ![key] = Append(@, NilPtr)]
                /\ applied' = [applied EXCEPT ![p] = @ + 1]
                /\ UpdateReturn(p, "")
        /\ UNCHANGED <<ctor, clock, m, op, plan, pos, snap, torn, maxNow, nOps, cm>>

\* update, line 140: the deferred db.m.Unlock(), and the caller has the result
UpdateUnlock(p) ==
    /\ pc[p] = "unlock"
    /\ m' = [m EXCEPT !.writer = NoProc]
    /\ torn' = (torn \/ (ret[p] # "" /\ applied[p] > 0))
    /\ maxNow' = IF applied[p] > 0 /\ op[p].now > maxNow THEN op[p].now ELSE maxNow
    /\ pc' = [pc EXCEPT ![p] = "idle"]
    /\ op' = [op EXCEPT ![p] = NoOp]
    /\ ret' = [ret EXCEPT ![p] = NoRet]
    /\ plan' = [plan EXCEPT ![p] = <<>>]
    /\ pos' = [pos EXCEPT ![p] = StartPos]
    /\ snap' = [snap EXCEPT ![p] = <<>>]
    /\ applied' = [applied EXCEPT ![p] = 0]
    /\ UNCHANGED <<vKVs, txEndPtr, ctor, clock, nOps, cm>>

\* ------------------------------------------------------------------ Get
\* Get, line 70: handleReadOpts reads the clock
GetCall(p, key, optValidTime, optTxTime) ==
    /\ pc[p] = "idle"
    /\ op' = [op EXCEPT ![p] =
           [kind |-> "get", key |-> key, value |-> "nil", optValidTime |-> optValidTime,
            optEndValidTime |-> optTxTime,
            validTime |-> IF optValidTime # Nil THEN optValidTime ELSE clock,
            endValidTime |-> Nil,
            now |-> IF optTxTime # Nil THEN optTxTime ELSE clock, call |-> 0]]
    /\ pc' = [pc EXCEPT ![p] = "rlock"]
    /\ UNCHANGED <<vKVs, txEndPtr, ctor, clock, m, ret, plan, pos, snap, applied, torn, maxNow, nOps, cm>>

\* Get, lines 72-78: db.m.RLock(), then the version of the key at the two times
GetRLock(p) ==
    /\ pc[p] = "rlock"
    /\ m.writer = NoProc
    /\ m' = [m EXCEPT !.readers = @ \cup {p}]
    /\ ret' = [ret EXCEPT ![p] = Seen(Get(vKVs, op[p].key, op[p].validTime, op[p].now))]
    /\ pc' = [pc EXCEPT ![p] = "read"]
    /\ UNCHANGED <<vKVs, txEndPtr, ctor, clock, op, plan, pos, snap, applied, torn, maxNow, nOps, cm>>

\* Get, line 73: the deferred db.m.RUnlock(), and the caller has the result
GetRUnlock(p) ==
    /\ pc[p] = "read"
    /\ m' = [m EXCEPT !.readers = @ \ {p}]
    /\ pc' = [pc EXCEPT ![p] = "idle"]
    /\ op' = [op EXCEPT ![p] = NoOp]
    /\ ret' = [ret EXCEPT ![p] = NoRet]
    /\ UNCHANGED <<vKVs, txEndPtr, ctor, clock, plan, pos, snap, applied, torn, maxNow, nOps, cm>>

\* ------------------------------------------------------------------ List
\* List, line 83: handleReadOpts reads the clock
ListCall(p, optValidTime, optTxTime) ==
    /\ pc[p] = "idle"
    /\ op' = [op EXCEPT ![p] =
           [kind |-> "list", key |-> "", value |-> "nil", optValidTime |-> optValidTime,
            optEndValidTime |-> optTxTime,
            validTime |-> IF optValidTime # Nil THEN optValidTime ELSE clock,
            endValidTime |-> Nil,
            now |-> IF optTxTime # Nil THEN optTxTime ELSE clock, call |-> 0]]
    /\ pc' = [pc EXCEPT ![p] = "list"]
    /\ UNCHANGED <<vKVs, txEndPtr, ctor, clock, m, ret, plan, pos, snap, applied, torn, maxNow, nOps, cm>>

\* List, lines 86-97: db.m.RLock(), then the version of every key at the two times;
\* ret is the error List returns, and its list is List(vKVs, ...).out of this state
ListRLock(p) ==
    /\ pc[p] = "list"
    /\ m.writer = NoProc
    /\ m' = [m EXCEPT !.readers = @ \cup {p}]
    /\ ret' = [ret EXCEPT ![p] = List(vKVs, op[p].validTime, op[p].now).err]
    /\ pc' = [pc EXCEPT ![p] = "listed"]
    /\ UNCHANGED <<vKVs, txEndPtr, ctor, clock, op, plan, pos, snap, applied, torn, maxNow, nOps, cm>>

\* List, line 87: the deferred db.m.RUnlock(), and the caller has the result
ListRUnlock(p) ==
    /\ pc[p] = "listed"
    /\ m' = [m EXCEPT !.readers = @ \ {p}]
    /\ pc' = [pc EXCEPT ![p] = "idle"]
    /\ op' = [op EXCEPT ![p] = NoOp]
    /\ ret' = [ret EXCEPT ![p] = NoRet]
    /\ UNCHANGED <<vKVs, txEndPtr, ctor, clock, plan, pos, snap, applied, torn, maxNow, nOps, cm>>

\* ------------------------------------------------------------------ History
\* History is called with a key
HistoryCall(p, key) ==
    /\ pc[p] = "idle"
    /\ op' = [op EXCEPT ![p] = [NoOp EXCEPT !.kind = "history", !.key = key]]
    /\ pc' = [pc EXCEPT ![p] = "history"]
    /\ UNCHANGED <<vKVs, txEndPtr, ctor, clock, m, ret, plan, pos, snap, applied, torn, maxNow, nOps, cm>>

\* a variant of HistoryRLock that sorts the records of the key where they are stored
HistoryRLock_sortInPlace(p) ==
    /\ pc[p] = "history"
    /\ m.writer = NoProc
    /\ m' = [m EXCEPT !.readers = @ \cup {p}]
    /\ ret' = [ret EXCEPT ![p] = History(vKVs, txEndPtr, op[p].key).err]
    /\ vKVs' = [vKVs EXCEPT ![op[p].key] = History(vKVs, txEndPtr, op[p].key).out]
    /\ pc' = [pc EXCEPT ![p] = "sorted"]
    /\ UNCHANGED <<txEndPtr, ctor, clock, op, plan, pos, snap, applied, torn, maxNow, nOps, cm>>

\* History, lines 112-128: db.m.RLock(), then a copy of the records of the key is
\* made and the copy is sorted; ret is the error History returns, and its list is
\* History(vKVs, ...).out of this state
HistoryRLock(p) ==
    /\ pc[p] = "history"
    /\ m.writer = NoProc
    /\ m' = [m EXCEPT !.readers = @ \cup {p}]
    /\ ret' = [ret EXCEPT ![p] = History(vKVs, txEndPtr, op[p].key).err]
    /\ pc' = [pc EXCEPT ![p] = "sorted"]
    /\ UNCHANGED <<vKVs, txEndPtr, ctor, clock, op, plan, pos, snap, applied, torn, maxNow, nOps, cm>>

\* History, line 113: the deferred db.m.RUnlock(), and the caller has the result
HistoryRUnlock(p) ==
    /\ pc[p] = "sorted"
    /\ m' = [m EXCEPT !.readers = @ \ {p}]
    /\ pc' = [pc EXCEPT ![p] = "idle"]
    /\ op' = [op EXCEPT ![p] = NoOp]
    /\ ret' = [ret EXCEPT ![p] = NoRet]
    /\ UNCHANGED <<vKVs, txEndPtr, ctor, clock, plan, pos, snap, applied, torn, maxNow, nOps, cm>>

\* ------------------------------------------------------------------ clock
SetNow(t) ==
    /\ clock' = TestClockSetNow(clock, t).now
    /\ UNCHANGED <<vKVs, txEndPtr, ctor, m, pc, op, ret, plan, pos, snap, applied, torn, maxNow, nOps, cm>>

\* ------------------------------------------------------------------ specifications
\* callers running concurrently on one store, as TestRace runs them: every caller
\* writes and reads the keys and sets the clock; a write may name its valid times
Next ==
    \/ \E t \in Times : SetNow(t)
    \/ \E p \in Procs, key \in RaceKeys, value \in Values, vt \in OptTimes, evt \in OptTimes :
           Set(p, key, value, vt, evt)
    \/ \E p \in Procs, key \in RaceKeys, vt \in OptTimes, evt \in OptTimes :
           Delete(p, key, vt, evt)
    \/ \E p \in Procs : UpdateFailed(p)
    \/ \E p \in Procs : UpdateLock(p)
    \/ \E p \in Procs : UpdateClose(p)
    \/ \E p \in Procs : UpdateOverhang(p)
    \/ \E p \in Procs : UpdateNew(p)
    \/ \E p \in Procs : UpdateUnlock(p)
    \/ \E p \in Procs, key \in RaceKeys : GetCall(p, key, Nil, Nil)
    \/ \E p \in Procs : GetRLock(p)
    \/ \E p \in Procs : GetRUnlock(p)

Spec == Init /\ [][Next]_vars

\* one caller making one call after the other: it sets the clock between its calls,
\* and passes any key and any options
Caller == "p1"
Quiet == \A p \in Procs : pc[p] = "idle"

\* a step of the caller, its calls taking their keys and values from the given sets
SeqStep(keys, values) ==
    \/ \E t \in Times : Quiet /\ SetNow(t)
    \/ \E key \in keys, value \in values, vt \in OptTimes, evt \in OptTimes :
           Set(Caller, key, value, vt, evt)
    \/ \E key \in keys, vt \in OptTimes, evt \in OptTimes : Delete(Caller, key, vt, evt)
    \/ UpdateFailed(Caller)
    \/ UpdateLock(Caller)
    \/ UpdateClose(Caller)
    \/ UpdateOverhang(Caller)
    \/ UpdateNew(Caller)
    \/ UpdateUnlock(Caller)
    \/ \E key \in keys \cap Keys : GetCall(Caller, key, Nil, Nil)
    \/ GetRLock(Caller)
    \/ GetRUnlock(Caller)

\* on a store that starts empty the caller uses every key, the empty one too, and
\* sets nil as well as values
SeqNext == SeqStep(CallKeys, Values \cup {NilValue})

SeqSpec == Init /\ [][SeqNext]_vars

\* the same caller on a store constructed with seed records: any records NewDB
\* accepts, whatever the clock says
SeedKVs ==
    {VersionedKV(k, v, txStart, txEnd, vtStart, vtEnd) :
        k \in SeedKeys, v \in SeedValues, txStart \in Times, txEnd \in OptTimes,
        vtStart \in Times, vtEnd \in OptTimes}
SeedLists == UNION {[1..n -> SeedKVs] : n \in 0..MaxSeeds}

InitSeeded ==
    /\ \E seeds \in SeedLists :
           /\ NewDB(seeds).err = ""
           /\ vKVs = NewDB(seeds).vKVs
           /\ ctor = [seeds |-> seeds, err |-> ""]
           /\ txEndPtr = [k \in CallKeys |->
                  [i \in 1..Len(NewDB(seeds).vKVs[k]) |-> SeedPtr(NewDB(seeds).vKVs[k][i])]]
    /\ InitCallers

\* on a seeded store the caller uses the key of the seeds and the empty key
SeedNext == SeqStep(SeedKeys \cup {""}, Values)

SeedSpec == InitSeeded /\ [][SeedNext]_vars

\* the caller on a seeded store, with List and History among its calls
ReadNext ==
    \/ SeedNext
    \/ \E vt \in OptTimes : ListCall(Caller, vt, Nil)
    \/ ListRLock(Caller)
    \/ ListRUnlock(Caller)
    \/ \E key \in Keys : HistoryCall(Caller, key)
    \/ HistoryRLock(Caller)
    \/ HistoryRUnlock(Caller)

ReadSpec == InitSeeded /\ [][ReadNext]_vars

\* the caller writing and reading two keys on a seeded store
KeysNext == SeqStep(Keys, {"x"})

KeysSpec == InitSeeded /\ [][KeysNext]_vars

\* ------------------------------------------------------------------ the two locks
\* the callers of TestRace with the lock of the clock in view: TestClock.Now and
\* TestClock.SetNow take TestClock.m as the store's calls take DB.m
RaceTimes == 1..2
RaceOptTimes == {Nil, 1}

\* a caller calls Set, Delete, Get, List, History or TestClock.SetNow; kind is the
\* call, t the instant handed to SetNow or the validTime option of a write
Call(p, kind, key, value, t) ==
    /\ pc[p] = "idle"
    /\ nOps < MaxCalls
    /\ nOps' = nOps + 1
    /\ op' = [op EXCEPT ![p] = [NoOp EXCEPT !.kind = kind, !.key = key, !.value = value,
                                            !.optValidTime = t, !.call = nOps + 1]]
    /\ pc' = [pc EXCEPT ![p] = CASE kind = "history" -> "history"
                                 [] kind = "setnow" -> "setnow"
                                 [] OTHER -> "now"]
    /\ UNCHANGED <<vKVs, txEndPtr, ctor, clock, m, ret, plan, pos, snap, applied, torn, maxNow, cm>>

\* TestClock.Now, line 18: c.m.RLock()
ClockRLock(p) ==
    /\ pc[p] = "now"
    /\ cm.writer = NoProc
    /\ cm' = [cm EXCEPT !.readers = @ \cup {p}]
    /\ pc' = [pc EXCEPT ![p] = "nowread"]
    /\ UNCHANGED <<vKVs, txEndPtr, ctor, clock, m, op, ret, plan, pos, snap, applied, torn, maxNow, nOps>>

\* TestClock.Now, lines 19-20: c.now is returned and the deferred c.m.RUnlock()
\* runs; handleWriteOpts or handleReadOpts goes on with it
ClockRUnlock(p) ==
    LET cfg == handleWriteOpts(op[p].optValidTime, op[p].optEndValidTime, clock)
    IN  /\ pc[p] = "nowread"
        /\ cm' = [cm EXCEPT !.readers = @ \ {p}]
        /\ IF op[p].kind \in {"set", "delete"}
           THEN IF cfg.err # ""
                THEN /\ ret' = [ret EXCEPT ![p] = cfg.err]
                     /\ pc' = [pc EXCEPT ![p] = "failed"]
                     /\ op' = op
                ELSE /\ op' = [op EXCEPT ![p].validTime = cfg.validTime,
                                         ![p].endValidTime = cfg.endValidTime,
                                         ![p].now = cfg.now]
                     /\ ret' = ret
                     /\ pc' = [pc EXCEPT ![p] = "lock"]
           ELSE /\ op' = [op EXCEPT ![p].validTime =
                                        IF op[p].optValidTime # Nil THEN op[p].optValidTime
                                        ELSE clock,
                                    ![p].now = clock]
                /\ ret' = ret
                /\ pc' = [pc EXCEPT ![p] = IF op[p].kind = "get" THEN "rlock" ELSE "list"]
        /\ UNCHANGED <<vKVs, txEndPtr, ctor, clock, m, plan, pos, snap, applied, torn, maxNow, nOps>>

\* TestClock.SetNow, line 25: c.m.Lock()
ClockLock(p) ==
    /\ pc[p] = "setnow"
    /\ cm.writer = NoProc /\ cm.readers = {}
    /\ cm' = [cm EXCEPT !.writer = p]
    /\ pc' = [pc EXCEPT ![p] = "setting"]
    /\ UNCHANGED <<vKVs, txEndPtr, ctor, clock, m, op, ret, plan, pos, snap, applied, torn, maxNow, nOps>>

\* a variant of ClockUnlock that returns the error without releasing the lock
ClockUnlock_keepOnError(p) ==
    /\ pc[p] = "setting"
    /\ clock' = TestClockSetNow(clock, op[p].optValidTime).now
    /\ cm' = IF TestClockSetNow(clock, op[p].optValidTime).err THEN cm
             ELSE [cm EXCEPT !.writer = NoProc]
    /\ pc' = [pc EXCEPT ![p] = "idle"]
    /\ op' = [op EXCEPT ![p] = NoOp]
    /\ ret' = [ret EXCEPT ![p] = NoRet]
    /\ UNCHANGED <<vKVs, txEndPtr, ctor, m, plan, pos, snap, applied, torn, maxNow, nOps>>

\* TestClock.SetNow, lines 26-31: the instant is checked and stored, and the
\* deferred c.m.Unlock() runs on either return
ClockUnlock(p) ==
    /\ pc[p] = "setting"
    /\ clock' = TestClockSetNow(clock, op[p].optValidTime).now
    /\ cm' = [cm EXCEPT !.writer = NoProc]
    /\ pc' = [pc EXCEPT ![p] = "idle"]
    /\ op' = [op EXCEPT ![p] = NoOp]
    /\ ret' = [ret EXCEPT ![p] = NoRet]
    /\ UNCHANGED <<vKVs, txEndPtr, ctor, m, plan, pos, snap, applied, torn, maxNow, nOps>>

\* a caller takes a lock
Acquire(p) ==
    \/ ClockRLock(p)
    \/ ClockLock(p)
    \/ UpdateLock(p)
    \/ GetRLock(p)
    \/ ListRLock(p)
    \/ HistoryRLock(p)

\* a caller goes on with a call without taking a lock
Proceed(p) ==
    \/ ClockRUnlock(p)
    \/ ClockUnlock(p)
    \/ UpdateFailed(p)
    \/ UpdateClose(p)
    \/ UpdateOverhang(p)
    \/ UpdateNew(p)
    \/ UpdateUnlock(p)
    \/ GetRUnlock(p)
    \/ ListRUnlock(p)
    \/ HistoryRUnlock(p)

RaceNext ==
    \/ \E p \in Procs, value \in Values, t \in RaceOptTimes : Call(p, "set", "a", value, t)
    \/ \E p \in Procs, t \in RaceOptTimes : Call(p, "delete", "a", NilValue, t)
    \/ \E p \in Procs : Call(p, "get", "a", NilValue, Nil)
    \/ \E p \in Procs : Call(p, "list", "", NilValue, Nil)
    \/ \E p \in Procs : Call(p, "history", "a", NilValue, Nil)
    \/ \E p \in Procs, t \in RaceTimes : Call(p, "setnow", "", NilValue, t)
    \/ \E p \in Procs : Acquire(p)
    \/ \E p \in Procs : Proceed(p)

\* the scheduler runs every goroutine that can run, and sync.RWMutex hands the
\* lock to a goroutine that waits for it once it is free (Lock keeps later readers
\* out; a mutex that starves turns to handing the lock over in order)
RaceSpec ==
    /\ Init
    /\ [][RaceNext]_vars
    /\ \A p \in Procs : WF_vars(Proceed(p)) /\ SF_vars(Acquire(p))

\* the constructor on its own: NewDB is called once, with any list of seed records,
\* valid or not, of one key or of two
NoCtor == [seeds |-> <<>>, err |-> "none"]
CtorTimes == 0..MaxCtorT
CtorKVs ==
    {VersionedKV(k, v, txStart, txEnd, vtStart, vtEnd) :
        k \in Keys, v \in SeedValues, txStart \in CtorTimes, txEnd \in CtorTimes \cup {Nil},
        vtStart \in CtorTimes, vtEnd \in CtorTimes \cup {Nil}}
CtorLists == UNION {[1..n -> CtorKVs] : n \in 0..MaxCtorSeeds}

InitCtor ==
    /\ vKVs = [k \in CallKeys |-> <<>>]
    /\ txEndPtr = [k \in CallKeys |-> <<>>]
    /\ ctor = NoCtor
    /\ InitCallers

\* NewDB(WithVersionedKVs(seeds), WithClock(clock)): on an error there is no store
NewDBCall(seeds) ==
    LET res == NewDB(seeds)
    IN  /\ ctor = NoCtor
        /\ ctor' = [seeds |-> seeds, err |-> res.err]
        /\ IF res.err = ""
           THEN /\ vKVs' = res.vKVs
                /\ txEndPtr' = [k \in CallKeys |->
                       [i \in 1..Len(res.vKVs[k]) |-> SeedPtr(res.vKVs[k][i])]]
           ELSE UNCHANGED <<vKVs, txEndPtr>>
        /\ UNCHANGED <<clock, m, pc, op, ret, plan, pos, snap, applied, torn, maxNow, nOps, cm>>

CtorNext == ctor = NoCtor /\ \E seeds \in CtorLists : NewDBCall(seeds)

CtorSpec == InitCtor /\ [][CtorNext]_vars

\* ------------------------------------------------------------------ claims
\* the instants a reader may ask for: one past the clock's last instant as well
QueryTimes == 0..(MaxT + 1)

\* two half-open intervals overlap iff a.start < b.end and b.start < a.end, an open
\* end being +infinity
Overlap(aStart, aEnd, bStart, bEnd) ==
    (bEnd = Nil \/ aStart < bEnd) /\ (aEnd = Nil \/ bStart < aEnd)
VTOverlap(a, b) == Overlap(a.ValidTimeStart, a.ValidTimeEnd, b.ValidTimeStart, b.ValidTimeEnd)
TTOverlap(a, b) == Overlap(a.TxTimeStart, a.TxTimeEnd, b.TxTimeStart, b.TxTimeEnd)

\* t is in [start, end)
Contains(start, end, t) == start <= t /\ (end = Nil \/ t < end)
ContainsPoint(r, vt, tt) ==
    /\ Contains(r.ValidTimeStart, r.ValidTimeEnd, vt)
    /\ Contains(r.TxTimeStart, r.TxTimeEnd, tt)

\* C1: in every state reached from a constructed store by Set and Delete calls, no
\* two distinct records of a key overlap on both the valid-time and the
\* transaction-time axis.
C1_NoBitemporalOverlap ==
    \A k \in Keys : \A i, j \in 1..Len(vKVs[k]) :
        i # j => ~(VTOverlap(vKVs[k][i], vKVs[k][j]) /\ TTOverlap(vKVs[k][i], vKVs[k][j]))

\* a write has closed a record and put another one over its valid time
C1_Witness ==
    /\ Quiet
    /\ \E k \in Keys : \E i, j \in 1..Len(vKVs[k]) :
           /\ i < j
           /\ VTOverlap(vKVs[k][i], vKVs[k][j])
           /\ vKVs[k][i].Value \in Values
           /\ vKVs[k][i].TxTimeEnd # Nil
           /\ vKVs[k][j].TxTimeStart = vKVs[k][i].TxTimeEnd
           /\ vKVs[k][j].Value \in Values

\* C2: in every reachable state, for every key and every point (vt, tt), at most one
\* record contains the point, so Get never returns the 'multiple versions matched'
\* error.
C2_ResolverUnique ==
    \A k \in Keys : \A vt \in QueryTimes, tt \in QueryTimes :
        /\ Cardinality({i \in 1..Len(vKVs[k]) : ContainsPoint(vKVs[k][i], vt, tt)}) <= 1
        /\ Get(vKVs, k, vt, tt).err # ErrMultiple

\* a key has several records, two of them containing the same valid time, and Get
\* resolves that valid time at some transaction time
C2_Witness ==
    /\ Quiet
    /\ \E k \in Keys : \E i, j \in 1..Len(vKVs[k]) : \E vt \in QueryTimes, tt \in QueryTimes :
           /\ i # j
           /\ Contains(vKVs[k][i].ValidTimeStart, vKVs[k][i].ValidTimeEnd, vt)
           /\ ContainsPoint(vKVs[k][j], vt, tt)
           /\ vKVs[k][j].Value \in Values
           /\ Get(vKVs, k, vt, tt).err = ""

\* the store as it was when p's update took the lock
Before(p) == [vKVs EXCEPT ![op[p].key] = snap[p]]

\* the valid-time window [s, e) of p's write: s is the validTime option, or now when
\* there is none; e is the endValidTime option, open when there is none
WindowStart(p) == IF op[p].optValidTime # Nil THEN op[p].optValidTime ELSE op[p].now
WindowEnd(p) == op[p].optEndValidTime
InWindow(p, t) == Contains(WindowStart(p), WindowEnd(p), t)

\* p's Set or Delete has its result and still holds the lock
Returning(p, kind) == pc[p] = "unlock" /\ op[p].kind = kind
Succeeded(p, kind) == Returning(p, kind) /\ ret[p] = ""

\* C3: a Set or Delete that returns an error leaves the records as they were
\* before the call: no record closed, none appended.
C3_AllOrNothing ==
    \A p \in Procs :
        (pc[p] = "unlock" /\ ret[p] # "") => vKVs = Before(p)

\* C4: after a successful Set(key, v) with window [s, e) at now, Get(key, t) at
\* transaction time now returns a record with value v for every t in the window.
C4_WithinWindowOverwrite ==
    \A p \in Procs : Succeeded(p, "set") =>
        \A t \in QueryTimes : InWindow(p, t) =>
            LET res == Get(vKVs, op[p].key, t, op[p].now)
            IN  res.err = "" /\ res.v.Value = op[p].value

\* a Set over part of the valid time of a record holding another value succeeded
C4_Witness ==
    \E p \in Procs :
        /\ Succeeded(p, "set")
        /\ \E t \in QueryTimes :
               /\ InWindow(p, t)
               /\ Get(Before(p), op[p].key, t, op[p].now).err = ""
               /\ Get(Before(p), op[p].key, t, op[p].now).v.Value # op[p].value

\* C5: after a successful Set with window [s, e) at now, for every valid time t
\* outside the window Get(key, t) at transaction time now returns what it returned
\* immediately before the write: the same value, or NotFound as before.
C5_OutsideWindowPreserved ==
    \A p \in Procs : Succeeded(p, "set") =>
        \A t \in QueryTimes : ~InWindow(p, t) =>
            Seen(Get(vKVs, op[p].key, t, op[p].now))
                = Seen(Get(Before(p), op[p].key, t, op[p].now))

\* a Set strictly inside the valid time of a record holding another value
\* succeeded: that record's value is found on both sides of the window
C5_Witness ==
    \E p \in Procs :
        /\ Succeeded(p, "set")
        /\ \E t1, t2 \in QueryTimes :
               /\ t1 < WindowStart(p) /\ WindowEnd(p) # Nil /\ t2 >= WindowEnd(p)
               /\ Get(Before(p), op[p].key, t1, op[p].now).err = ""
               /\ Get(Before(p), op[p].key, t2, op[p].now).err = ""
               /\ Get(Before(p), op[p].key, t1, op[p].now).v.Value # op[p].value
               /\ Len(vKVs[op[p].key]) > Len(snap[p]) + 2

\* C6: after a successful Delete with window [s, e) at now, Get(key, t) at
\* transaction time now returns NotFound for every t in the window, and for every t
\* outside it what it returned immediately before the delete.
C6_DeleteRoundTrip ==
    \A p \in Procs : Succeeded(p, "delete") =>
        \A t \in QueryTimes :
            IF InWindow(p, t)
            THEN Get(vKVs, op[p].key, t, op[p].now).err = ErrNotFound
            ELSE Seen(Get(vKVs, op[p].key, t, op[p].now))
                     = Seen(Get(Before(p), op[p].key, t, op[p].now))

\* a Delete took a value away inside its window and left one outside of it
C6_Witness ==
    \E p \in Procs :
        /\ Succeeded(p, "delete")
        /\ \E t1, t2 \in QueryTimes :
               /\ InWindow(p, t1) /\ ~InWindow(p, t2)
               /\ Get(Before(p), op[p].key, t1, op[p].now).err = ""
               /\ Get(vKVs, op[p].key, t2, op[p].now).err = ""

\* two results of Get are the same: the same error, or the same record (its
\* transaction-time end apart, which closing the record sets)
SameResult(a, b) ==
    /\ a.err = b.err
    /\ a.err = "" => [a.v EXCEPT !.TxTimeEnd = Nil] = [b.v EXCEPT !.TxTimeEnd = Nil]

C8_StampsFollowLockOrder ==
    \A p \in Procs : (m.writer = p /\ applied[p] > 0) => op[p].now >= maxNow

\* C9: a Get holding the read lock sees none or all of the changes of every write:
\* no write is part-way through its changes, and none has stopped part-way.
C9_ReadsSeeWholeWrites ==
    \A p \in Procs : pc[p] = "read" =>
        /\ ~torn
        /\ \A q \in Procs : applied[q] = 0 \/ applied[q] = Planned(q)

\* C10: no Set or Delete returns the overlap error of assertNoOverlap.
C10_GuardNeverFails ==
    \A p \in Procs : ret[p] # ErrOverlap

\* C11: a Set or Delete uses the one value now it read from the clock for every
\* stamp: every record it has closed has txEnd = now and every record it has
\* appended has txStart = now, whatever the clock says in the meantime.
C11_OneNowPerWrite ==
    \A p \in Procs : m.writer = p =>
        LET vs == vKVs[op[p].key]
        IN  /\ Len(vs) >= Len(snap[p])
            /\ \A i \in 1..Len(snap[p]) :
                   vs[i] # snap[p][i] => vs[i].TxTimeEnd = op[p].now
            /\ \A i \in (Len(snap[p]) + 1)..Len(vs) : vs[i].TxTimeStart = op[p].now

\* a write has closed a record and appended an overhang and a new record while
\* the clock has moved on from the now it read
C11_Witness ==
    \E p \in Procs :
        /\ pc[p] = "unlock" /\ ret[p] = ""
        /\ clock # op[p].now
        /\ \E i \in 1..Len(snap[p]) : vKVs[op[p].key][i] # snap[p][i]
        /\ Len(vKVs[op[p].key]) >= Len(snap[p]) + 2

\* C12: a stored record is never removed and never changed, except that its txEnd
\* is set once, from open to the now of the write holding the lock; the txEnd of a
\* closed record is never changed again.
C12_RecordsImmutable ==
    [][\A k \in CallKeys :
          /\ Len(vKVs'[k]) >= Len(vKVs[k])
          /\ \A i \in 1..Len(vKVs[k]) :
                 \/ vKVs'[k][i] = vKVs[k][i]
                 \/ /\ vKVs[k][i].TxTimeEnd = Nil
                    /\ \E p \in Procs :
                           /\ m.writer = p
                           /\ vKVs'[k][i] = [vKVs[k][i] EXCEPT !.TxTimeEnd = op[p].now]]_vars

\* C13: every record the store holds has well-formed intervals: txStart < txEnd
\* unless txEnd is open, and vtStart < vtEnd unless vtEnd is open.
C13_WellFormedIntervals ==
    \A k \in CallKeys : \A i \in 1..Len(vKVs[k]) :
        /\ vKVs[k][i].TxTimeEnd # Nil => vKVs[k][i].TxTimeStart < vKVs[k][i].TxTimeEnd
        /\ vKVs[k][i].ValidTimeEnd # Nil =>
               vKVs[k][i].ValidTimeStart < vKVs[k][i].ValidTimeEnd

\* C14: a write that changes the store has a now that is not earlier than any
\* transaction-time instant (txStart or txEnd of any record) the store held when
\* the write took the lock; so every record it appends, stamped now, has a txStart
\* not earlier than any of them, and a write with an earlier now changes nothing.
C14_StampsNotBeforeStore ==
    \A p \in Procs : (m.writer = p /\ applied[p] > 0) =>
        \A k \in Keys : \A i \in 1..Len(Before(p)[k]) :
            /\ Before(p)[k][i].TxTimeStart <= op[p].now
            /\ Before(p)[k][i].TxTimeEnd # Nil => Before(p)[k][i].TxTimeEnd <= op[p].now

\* p makes a Set or Delete call in this step
Calls(p) == pc[p] = "idle" /\ op'[p].kind \in {"set", "delete"}
\* the valid time the call is going to use: the option, or the clock's now
CallValidTime(p) == IF op'[p].optValidTime # Nil THEN op'[p].optValidTime ELSE clock
\* the call is rejected in this step, and the store stays as it is
Rejected(p) == pc'[p] = "failed" /\ ret'[p] \notin {"", NoRet} /\ vKVs' = vKVs

\* C15: a Set or Delete whose endValidTime is not strictly after its valid time
\* (the validTime option, or now without one) returns an error, and the store is
\* the same from the call to its return.
C15_EndNotAfterStartRejected ==
    [][\A p \in Procs :
          /\ (Calls(p) /\ op'[p].optEndValidTime # Nil
                 /\ op'[p].optEndValidTime <= CallValidTime(p)) => Rejected(p)
          /\ pc[p] = "failed" => vKVs' = vKVs]_vars

\* a Delete of a key that has records, with an endValidTime equal to now and no
\* validTime, has been rejected
C15_Witness ==
    \E p \in Procs :
        /\ pc[p] = "failed" /\ op[p].kind = "delete"
        /\ op[p].optValidTime = Nil /\ op[p].optEndValidTime = clock
        /\ ret[p] = "valid time start must be before end"
        /\ Len(vKVs[op[p].key]) > 0

\* C16: a Set or Delete whose valid time or endValidTime is strictly later than now
\* returns an error, and the store is the same from the call to its return; no call
\* is rejected as being in the future for a valid time or an endValidTime that is
\* not later than now.
C16_FutureRejected ==
    [][\A p \in Procs :
          /\ (Calls(p) /\ (CallValidTime(p) > clock \/ op'[p].optEndValidTime > clock))
                 => Rejected(p)
          /\ (Calls(p) /\ ret'[p] \in {"valid time start cannot be in the future",
                                       "valid time end cannot be in the future"})
                 => (CallValidTime(p) > clock \/ op'[p].optEndValidTime > clock)
          /\ (Calls(p) /\ CallValidTime(p) = clock /\ op'[p].optEndValidTime = Nil)
                 => pc'[p] = "lock"
          /\ (Calls(p) /\ CallValidTime(p) < clock /\ op'[p].optEndValidTime = clock)
                 => pc'[p] = "lock"
          /\ pc[p] = "failed" => vKVs' = vKVs]_vars

\* a Set of a key that has records has been rejected for a validTime in the future
C16_Witness ==
    \E p \in Procs :
        /\ pc[p] = "failed" /\ op[p].kind = "set"
        /\ op[p].optValidTime > clock
        /\ ret[p] = "valid time start cannot be in the future"
        /\ Len(vKVs[op[p].key]) > 0

\* C17: a Set with an empty key returns an error and changes nothing: no record is
\* ever stored under the empty key, and the records are as they were before the
\* call.
C17_SetEmptyKeyRejected ==
    /\ vKVs[""] = <<>>
    /\ \A p \in Procs : (op[p].kind = "set" /\ op[p].key = "") =>
           /\ pc[p] \in {"failed", "unlock"} => ret[p] \notin {"", NoRet}
           /\ m.writer = p => (applied[p] = 0 /\ vKVs = Before(p))

\* a Set with an empty key and acceptable options, on a store that has records,
\* has returned the error of Validate
C17_Witness ==
    \E p \in Procs :
        /\ pc[p] = "unlock" /\ op[p].kind = "set" /\ op[p].key = ""
        /\ ret[p] = ErrValidate
        /\ \E k \in Keys : Len(vKVs[k]) > 0

\* C18: a Delete with an empty key returns an error, as a Set with an empty key
\* does.
C18_DeleteEmptyKeyRejected ==
    \A p \in Procs : (op[p].kind = "delete" /\ op[p].key = "") =>
        (pc[p] \in {"failed", "unlock"} => ret[p] \notin {"", NoRet})

\* the valid-time window of p's Delete overlaps no record of the key that was
\* current (its transaction time open) when the Delete took the lock
NoCurrentOverlap(p) ==
    \A i \in 1..Len(snap[p]) :
        snap[p][i].TxTimeEnd = Nil =>
            ~Overlap(op[p].validTime, op[p].endValidTime,
                     snap[p][i].ValidTimeStart, snap[p][i].ValidTimeEnd)

\* C19: a Delete whose window overlaps no current record of the key - a key that
\* was never written included - returns no error and leaves the store as it was:
\* nothing closed, nothing appended, and Get finds nothing where it found nothing.
C19_DeleteNoOverlapNoOp ==
    \A p \in Procs : (m.writer = p /\ op[p].kind = "delete" /\ NoCurrentOverlap(p)) =>
        /\ vKVs = Before(p)
        /\ pc[p] = "unlock" => ret[p] = ""
        /\ \A t \in QueryTimes :
               Get(Before(p), op[p].key, t, op[p].now).err = ErrNotFound
                   => Get(vKVs, op[p].key, t, op[p].now).err = ErrNotFound

\* a Delete has returned whose window lies beside the valid time of a current
\* record of the key
C19_Witness ==
    \E p \in Procs :
        /\ Succeeded(p, "delete") /\ NoCurrentOverlap(p)
        /\ \E i \in 1..Len(snap[p]) : snap[p][i].TxTimeEnd = Nil

\* an end of an interval as an instant: an open end is later than every instant
EndInstant(e) == IF e = Nil THEN MaxT + 2 ELSE e
\* a comes before b in the order of History, or they tie
HistoryOrdered(a, b) ==
    \/ EndInstant(a.TxTimeEnd) > EndInstant(b.TxTimeEnd)
    \/ /\ EndInstant(a.TxTimeEnd) = EndInstant(b.TxTimeEnd)
       /\ EndInstant(a.ValidTimeEnd) >= EndInstant(b.ValidTimeEnd)

\* C20: in every reachable state and for every key, History(key) returns the key's
\* records sorted by txEnd descending, and among equal txEnd by vtEnd descending, an
\* open end being later than every instant.
C20_HistorySorted ==
    \A k \in Keys : m.writer = NoProc =>
        LET out == History(vKVs, txEndPtr, k).out
        IN  \A i, j \in 1..Len(out) : i < j => HistoryOrdered(out[i], out[j])

\* how many times r occurs in the sequence s
Occurrences(s, r) == Cardinality({n \in 1..Len(s) : s[n] = r})

\* C21: History(key) returns exactly the records stored for the key, seeds and
\* records closed since included, each as often as it is stored (once); and the
\* number of records it returns never decreases.
C21_HistoryComplete ==
    [][\A k \in Keys :
          LET out == History(vKVs, txEndPtr, k).out
              out1 == History(vKVs', txEndPtr', k).out
          IN  /\ Len(out) = Len(vKVs[k])
              /\ Len(out1) = Len(vKVs'[k])
              /\ Len(out1) >= Len(out)
              /\ \A n \in 1..Len(vKVs'[k]) :
                     /\ Occurrences(out1, vKVs'[k][n]) = 1
                     /\ Occurrences(vKVs'[k], vKVs'[k][n]) = 1]_vars

\* History returns a seed that a write has closed, together with the records of
\* two writes
C21_Witness ==
    /\ Quiet
    /\ \E k \in Keys :
           LET out == History(vKVs, txEndPtr, k).out
           IN  /\ Len(out) >= 3
               /\ \E n \in 1..Len(out) : out[n].Value \in SeedValues /\ out[n].TxTimeEnd # Nil
               /\ \E n \in 1..Len(out) : out[n].Value \in Values /\ out[n].TxTimeEnd # Nil

\* the record has intervals that are not empty
NonEmptyIntervals(r) ==
    /\ r.TxTimeEnd # Nil => r.TxTimeStart < r.TxTimeEnd
    /\ r.ValidTimeEnd # Nil => r.ValidTimeStart < r.ValidTimeEnd
\* Get at (vt, tt) finds nothing if no record of the key but its i-th contains the point
NotFoundUnlessOther(k, i, vt, tt) ==
    (\A n \in 1..Len(vKVs[k]) : n # i => ~ContainsPoint(vKVs[k][n], vt, tt))
        => Get(vKVs, k, vt, tt).err = ErrNotFound

\* C22: for every stored record r (its intervals not empty), Get as of r's vtStart
\* and txStart returns r; Get as of r's vtEnd (at r's txStart) and Get as of r's
\* txEnd (at r's vtStart) do not return r, and return NotFound unless another record
\* contains the point.
C22_HalfOpenResolution ==
    \A k \in Keys : \A i \in 1..Len(vKVs[k]) :
        LET r == vKVs[k][i]
        IN  NonEmptyIntervals(r) =>
                /\ Get(vKVs, k, r.ValidTimeStart, r.TxTimeStart) = [err |-> "", v |-> r]
                /\ r.ValidTimeEnd # Nil =>
                       /\ Get(vKVs, k, r.ValidTimeEnd, r.TxTimeStart).v # r
                       /\ NotFoundUnlessOther(k, i, r.ValidTimeEnd, r.TxTimeStart)
                /\ r.TxTimeEnd # Nil =>
                       /\ Get(vKVs, k, r.ValidTimeStart, r.TxTimeEnd).v # r
                       /\ NotFoundUnlessOther(k, i, r.ValidTimeStart, r.TxTimeEnd)

\* a record with both ends closed is stored; Get finds nothing at its vtEnd, and
\* finds another record at its txEnd
C22_Witness ==
    /\ Quiet
    /\ \E k \in Keys : \E i \in 1..Len(vKVs[k]) :
           LET r == vKVs[k][i]
           IN  /\ NonEmptyIntervals(r)
               /\ r.ValidTimeEnd # Nil /\ r.TxTimeEnd # Nil
               /\ Get(vKVs, k, r.ValidTimeEnd, r.TxTimeStart).err = ErrNotFound
               /\ Get(vKVs, k, r.ValidTimeStart, r.TxTimeEnd).err = ""

\* C23: List as of (vt, tt) returns, for each key that has a record containing the
\* point, that one record - the record Get returns for the key - and nothing for
\* the keys Get finds nothing for; it returns an error only if some key has more
\* than one record containing the point.
C23_ListResolvesPerKey ==
    \A vt \in QueryTimes, tt \in QueryTimes :
        LET l == List(vKVs, vt, tt)
            hits(k) == {n \in 1..Len(vKVs[k]) : ContainsPoint(vKVs[k][n], vt, tt)}
        IN  /\ l.err # "" => \E k \in Keys : Cardinality(hits(k)) > 1
            /\ l.err = "" =>
                   /\ \A k \in Keys :
                          {r \in l.out : r.Key = k} =
                              (IF Get(vKVs, k, vt, tt).err = ""
                               THEN {Get(vKVs, k, vt, tt).v} ELSE {})
                   /\ \A r \in l.out : r.Key \in Keys

\* two keys have records; List returns a record for each of them as of one point
\* and for one of them only as of another
C23_Witness ==
    /\ Quiet
    /\ \A k \in Keys : Len(vKVs[k]) > 0
    /\ \E vt \in QueryTimes, tt \in QueryTimes :
           Cardinality(List(vKVs, vt, tt).out) = Cardinality(Keys)
    /\ \E vt \in QueryTimes, tt \in QueryTimes :
           Cardinality(List(vKVs, vt, tt).out) = 1

\* the seeds of key k, in the order they were given
SeedsOf(seeds, k) == LET has(v) == v.Key = k IN SelectSeq(seeds, has)

\* C24: NewDB fails iff some seed fails Validate or two seeds of the same key
\* overlap on both axes (as far as NewDB got: it stops at the first seed it
\* rejects); when it succeeds the store holds exactly the seeds, those of a key
\* that overlap on one axis only included.
C24_ConstructorChecksSeeds ==
    ctor # NoCtor =>
        LET seeds == ctor.seeds
            invalid == \E i \in 1..Len(seeds) : ~Validate(seeds[i])
            clash == \E i, j \in 1..Len(seeds) :
                         /\ i < j /\ seeds[i].Key = seeds[j].Key
                         /\ VTOverlap(seeds[i], seeds[j]) /\ TTOverlap(seeds[i], seeds[j])
        IN  /\ ctor.err # "" <=> (invalid \/ clash)
            /\ ctor.err = "" => \A k \in CallKeys : vKVs[k] = SeedsOf(seeds, k)
            /\ ctor.err # "" => \A k \in CallKeys : vKVs[k] = <<>>

\* NewDB has accepted two seeds of one key that overlap on one axis only
C24_Witness ==
    /\ ctor # NoCtor /\ ctor.err = ""
    /\ \E k \in Keys :
           /\ Len(vKVs[k]) = 2
           /\ VTOverlap(vKVs[k][1], vKVs[k][2]) /\ ~TTOverlap(vKVs[k][1], vKVs[k][2])

\* C25: after a successful Set(key, nil) Get finds, at every valid time of the
\* window, a record whose value is nil - the record the Set stored - where after a
\* successful Delete it finds nothing.
C25_SetNilIsNotDelete ==
    \A p \in Procs : \A t \in QueryTimes : InWindow(p, t) =>
        /\ (Succeeded(p, "set") /\ op[p].value = NilValue) =>
               Get(vKVs, op[p].key, t, op[p].now) =
                   [err |-> "",
                    v |-> VersionedKV(op[p].key, NilValue, op[p].now, Nil,
                                      op[p].validTime, op[p].endValidTime)]
        /\ Succeeded(p, "delete") => Get(vKVs, op[p].key, t, op[p].now).err = ErrNotFound

\* a Set of nil has succeeded over the valid time of a record that held a value
C25_Witness ==
    \E p \in Procs :
        /\ Succeeded(p, "set") /\ op[p].value = NilValue
        /\ \E t \in QueryTimes :
               /\ InWindow(p, t)
               /\ Get(Before(p), op[p].key, t, op[p].now).err = ""
               /\ Get(Before(p), op[p].key, t, op[p].now).v.Value \in Values
               /\ Get(vKVs, op[p].key, t, op[p].now).v.Value = NilValue

\* C26: SetNow(t) with t earlier than the stored instant returns an error and
\* leaves it as it is, and with any other t succeeds and stores t; the stored
\* instant never decreases, and every call that reads the clock gets the stored
\* instant, so the values Now returns never decrease.
C26_ClockNeverDecreases ==
    [][/\ \A now \in Times, t \in Times :
             TestClockSetNow(now, t) = IF t < now THEN [err |-> TRUE, now |-> now]
                                                  ELSE [err |-> FALSE, now |-> t]
       /\ clock' >= clock
       /\ \A p \in Procs :
             (pc[p] = "idle" /\ pc'[p] \in {"lock", "rlock"}) => op'[p].now = clock]_vars

\* a call has read the clock, the clock has been set to a later instant since, and
\* setting it back to the zero instant is an error
C26_Witness ==
    /\ TestClockSetNow(clock, 0).err
    /\ \E p \in Procs : pc[p] = "lock" /\ op[p].now > 0 /\ op[p].now < clock

\* the records p's write has appended to its key
Emitted(p) ==
    {vKVs[op[p].key][n] : n \in (Len(snap[p]) + 1)..Len(vKVs[op[p].key])}

\* C27: the record of a successful Set has vtStart = now when no validTime was
\* given and an open vtEnd when no endValidTime was given, now being the clock's
\* instant; with no option at all the Set appends exactly one record with valid
\* time [now, open) and transaction time [now, open), last, holding its value.
C27_WriteDefaults ==
    \A p \in Procs : Succeeded(p, "set") =>
        LET vs == vKVs[op[p].key]
            newV == vs[Len(vs)]
        IN  /\ op[p].now = clock
            /\ Len(vs) > Len(snap[p])
            /\ op[p].optValidTime = Nil => newV.ValidTimeStart = op[p].now
            /\ op[p].optEndValidTime = Nil => newV.ValidTimeEnd = Nil
            /\ (op[p].optValidTime = Nil /\ op[p].optEndValidTime = Nil) =>
                   /\ newV = VersionedKV(op[p].key, op[p].value, op[p].now, Nil, op[p].now, Nil)
                   /\ Cardinality({r \in Emitted(p) :
                          /\ r.ValidTimeStart = op[p].now /\ r.ValidTimeEnd = Nil
                          /\ r.TxTimeStart = op[p].now /\ r.TxTimeEnd = Nil}) = 1

\* a Set without options has succeeded on a key that had a current record
C27_Witness ==
    \E p \in Procs :
        /\ Succeeded(p, "set")
        /\ op[p].optValidTime = Nil /\ op[p].optEndValidTime = Nil
        /\ \E n \in 1..Len(snap[p]) : snap[p][n].TxTimeEnd = Nil
        /\ Len(vKVs[op[p].key]) = Len(snap[p]) + 2

\* p's write, with window [s, e) at now, is to close the record r of its key: r's
\* transaction time contains now and r's valid time intersects the window
ToClose(p, r) ==
    /\ Contains(r.TxTimeStart, r.TxTimeEnd, op[p].now)
    /\ Overlap(op[p].validTime, op[p].endValidTime, r.ValidTimeStart, r.ValidTimeEnd)
\* p's Set or Delete has been carried out and is about to return without an error
Written(p) == pc[p] = "unlock" /\ ret[p] = "" /\ op[p].kind \in {"set", "delete"}

\* C28: a write at now with window [s, e) sets txEnd = now on exactly the records of
\* its key whose transaction time contains now and whose valid time intersects the
\* window; it leaves every other record of the key, and the other keys, as they
\* were.
C28_ClosesExactlyOverlapped ==
    \A p \in Procs : Written(p) =>
        /\ \A i \in 1..Len(snap[p]) :
               vKVs[op[p].key][i] = IF ToClose(p, snap[p][i])
                                    THEN [snap[p][i] EXCEPT !.TxTimeEnd = op[p].now]
                                    ELSE snap[p][i]
        /\ \A k \in CallKeys : k # op[p].key => vKVs[k] = Before(p)[k]

\* a write has closed one record of its key and left alone a current record of
\* the key beside its window and a record whose transaction time had ended
C28_Witness ==
    \E p \in Procs :
        /\ Written(p)
        /\ \E i, j, n \in 1..Len(snap[p]) :
               /\ ToClose(p, snap[p][i]) /\ vKVs[op[p].key][i] # snap[p][i]
               /\ snap[p][j].TxTimeEnd = Nil /\ ~ToClose(p, snap[p][j])
               /\ snap[p][n].TxTimeEnd # Nil /\ ~ToClose(p, snap[p][n])

\* the records p's write has appended to its key, in the order of appending
EmittedSeq(p) ==
    SubSeq(vKVs[op[p].key], Len(snap[p]) + 1, Len(vKVs[op[p].key]))
\* r's part before the window [s, e) and r's part after it
LeftOf(r, s) == r.ValidTimeStart < s
RightOf(r, e) == e # Nil /\ (r.ValidTimeEnd = Nil \/ e < r.ValidTimeEnd)
\* the successors of a record r that a write at now with window [s, e) closes
Successors(r, now, s, e) ==
    (IF LeftOf(r, s)
     THEN <<VersionedKV(r.Key, r.Value, now, Nil, r.ValidTimeStart, s)>> ELSE <<>>)
    \o (IF RightOf(r, e)
        THEN <<VersionedKV(r.Key, r.Value, now, Nil, e, r.ValidTimeEnd)>> ELSE <<>>)
RECURSIVE SuccessorsFrom(_, _)
SuccessorsFrom(p, n) ==
    IF n > Len(snap[p]) THEN <<>>
    ELSE (IF ToClose(p, snap[p][n])
          THEN Successors(snap[p][n], op[p].now, op[p].validTime, op[p].endValidTime)
          ELSE <<>>) \o SuccessorsFrom(p, n + 1)
\* the record of p's Set; a Delete has none
OwnRecord(p) ==
    IF op[p].kind = "set"
    THEN <<VersionedKV(op[p].key, op[p].value, op[p].now, Nil,
                       op[p].validTime, op[p].endValidTime)>>
    ELSE <<>>
\* the records p's write closes
ClosedBy(p) == {n \in 1..Len(snap[p]) : ToClose(p, snap[p][n])}

\* C29: for each record r that a write with window [s, e) closes, the write appends
\* exactly these successors, holding r's value with transaction time [now, open):
\* one with valid time [r.vtStart, s) iff r.vtStart < s, and one with valid time
\* [e, r.vtEnd) iff e is not open and r.vtEnd is open or after e; a Set appends its
\* own record after them and nothing else is appended. So a write strictly inside
\* a record's valid time appends two successors of it, and a write over exactly
\* that valid time appends none.
C29_OverhangSuccessors ==
    \A p \in Procs : Written(p) =>
        /\ EmittedSeq(p) = SuccessorsFrom(p, 1) \o OwnRecord(p)
        /\ \A n \in ClosedBy(p) :
               LET r == snap[p][n]
                   s == op[p].validTime
                   e == op[p].endValidTime
               IN  ClosedBy(p) = {n} =>
                       /\ (r.ValidTimeStart < s /\ e # Nil
                             /\ (r.ValidTimeEnd = Nil \/ e < r.ValidTimeEnd))
                           => Len(EmittedSeq(p)) = 2 + Len(OwnRecord(p))
                       /\ (r.ValidTimeStart = s /\ r.ValidTimeEnd = e)
                           => EmittedSeq(p) = OwnRecord(p)

\* a write over exactly the valid time of the one record it closes
ExactCover ==
    \E p \in Procs :
        /\ Written(p)
        /\ \E n \in ClosedBy(p) :
               /\ ClosedBy(p) = {n}
               /\ snap[p][n].ValidTimeStart = op[p].validTime
               /\ snap[p][n].ValidTimeEnd = op[p].endValidTime
               /\ snap[p][n].ValidTimeEnd # Nil

\* a Set strictly inside the valid time of the one record it closes has appended
\* the two successors of that record and then its own record
C29_Witness ==
    \E p \in Procs :
        /\ Written(p) /\ op[p].kind = "set"
        /\ Cardinality(ClosedBy(p)) = 1
        /\ \A n \in ClosedBy(p) :
               /\ LeftOf(snap[p][n], op[p].validTime)
               /\ RightOf(snap[p][n], op[p].endValidTime)
               /\ snap[p][n].Value # op[p].value
        /\ Len(EmittedSeq(p)) = 3
        /\ EmittedSeq(p)[3].Value = op[p].value

\* the records whose transaction time contains the clock's instant are the
\* records whose txEnd is open
OpenIffCurrent ==
    \A k \in DOMAIN vKVs : \A i \in 1..Len(vKVs[k]) :
        Contains(vKVs[k][i].TxTimeStart, vKVs[k][i].TxTimeEnd, clock)
            <=> vKVs[k][i].TxTimeEnd = Nil
\* the records that a write's findOverlappingValidTimeVersions considers, those
\* whose transaction time contains the write's now, are the records of the key
\* whose txEnd is open
PlannerSeesOpen ==
    \A p \in Procs : m.writer = p =>
        \A i \in 1..Len(snap[p]) :
            Contains(snap[p][i].TxTimeStart, snap[p][i].TxTimeEnd, op[p].now)
                <=> snap[p][i].TxTimeEnd = Nil

\* C30: in every state reached from an empty store under a clock that never goes
\* back, a record's transaction time contains the clock's instant iff its txEnd is
\* open, and so the records that a write considers (now in [txStart, txEnd)) are
\* exactly the records with an open txEnd.
C30_SnapshotIsOpenRecords == OpenIffCurrent /\ PlannerSeesOpen

\* p's write has its result, and an earlier write at the same instant has stored a
\* record of the key
SameInstant(p) ==
    /\ pc[p] = "unlock" /\ op[p].kind \in {"set", "delete"}
    /\ clock = op[p].now
    /\ \E i \in 1..Len(snap[p]) : snap[p][i].TxTimeStart = op[p].now
\* the arguments of p's write are those of a record that passes Validate
ValidArguments(p) == op[p].key # "" /\ op[p].validTime # 0 /\ op[p].now # 0

\* C31: a write to a key at the instant of an earlier write to the key (the clock
\* has not moved) succeeds, and a Get at that instant returns, for every valid time
\* in the write's window, the value of a Set and NotFound after a Delete, and for
\* every other valid time what it returned before the write: the value of the
\* latest write whose window contains the point.
C31_SameInstantWrites ==
    \A p \in Procs : (SameInstant(p) /\ ValidArguments(p)) =>
        /\ ret[p] = ""
        /\ \A t \in QueryTimes :
               LET g == Get(vKVs, op[p].key, t, clock)
               IN  IF InWindow(p, t)
                   THEN IF op[p].kind = "set"
                        THEN g.err = "" /\ g.v.Value = op[p].value
                        ELSE g.err = ErrNotFound
                   ELSE LET b == Get(Before(p), op[p].key, t, clock)
                        IN  g.err = b.err /\ (g.err = "" => g.v.Value = b.v.Value)

\* a Set with a window inside the window of a Set of another value at the same
\* instant has succeeded, and a Get finds the first value beside the window
C31_Witness ==
    \E p \in Procs :
        /\ SameInstant(p) /\ ValidArguments(p) /\ op[p].kind = "set" /\ ret[p] = ""
        /\ \E i \in 1..Len(snap[p]) :
               /\ snap[p][i].TxTimeStart = op[p].now
               /\ snap[p][i].Value # op[p].value
               /\ vKVs[op[p].key][i].TxTimeEnd = op[p].now
        /\ \E t \in QueryTimes :
               /\ ~InWindow(p, t)
               /\ Get(vKVs, op[p].key, t, clock).err = ""
               /\ Get(vKVs, op[p].key, t, clock).v.Value # op[p].value

\* History does not find the key
Unknown(k) == History(vKVs, txEndPtr, k).err = ErrNotFound
\* p's write found no record of its key when it took the lock
NeverWritten(p) == m.writer = p /\ snap[p] = <<>>
\* what History returns after a write that stored nothing, and for a key whose
\* records are all closed
HistoryKnows ==
    /\ \A p \in Procs :
           /\ (NeverWritten(p) /\ Returning(p, "delete")) => Unknown(op[p].key)
           /\ (NeverWritten(p) /\ Returning(p, "set") /\ ret[p] # "")
                  => Unknown(op[p].key)
           /\ pc[p] = "failed" => (Unknown(op[p].key) <=> vKVs[op[p].key] = <<>>)
    /\ \A k \in CallKeys :
           (vKVs[k] # <<>> /\ \A n \in 1..Len(vKVs[k]) : vKVs[k][n].TxTimeEnd # Nil)
               => /\ ~Unknown(k)
                  /\ Len(History(vKVs, txEndPtr, k).out) = Len(vKVs[k])

\* C32: History(key) returns NotFound iff no record has ever been stored for the
\* key: it returns NotFound after a step iff it did before and the step stored no
\* record of the key. A Delete of a key that was never written and a rejected Set
\* leave the key unknown, and a key whose records are all closed has them returned.
C32_HistoryNotFoundIffNeverStored ==
    [][/\ \A k \in CallKeys :
              (History(vKVs', txEndPtr', k).err = ErrNotFound)
                  <=> (Unknown(k) /\ vKVs'[k] = vKVs[k])
       /\ HistoryKnows']_vars

\* a Delete has closed every record of a key and History returns them
C32_Witness ==
    \E p \in Procs :
        /\ Succeeded(p, "delete")
        /\ snap[p] # <<>>
        /\ \A n \in 1..Len(vKVs[op[p].key]) : vKVs[op[p].key][n].TxTimeEnd # Nil
        /\ History(vKVs, txEndPtr, op[p].key).err = ""
        /\ Len(History(vKVs, txEndPtr, op[p].key).out) >= 1

\* a Delete of a key that was never written has returned
DeleteOfUnknown ==
    \E p \in Procs : NeverWritten(p) /\ Returning(p, "delete") /\ ret[p] = ""
\* a Set of a key that was never written has returned an error
RejectedSetOfUnknown ==
    \E p \in Procs : NeverWritten(p) /\ Returning(p, "set") /\ ret[p] # ""

\* C33: every record the store holds has a key that is not empty (the key it is
\* stored under), a txStart that is not the zero time and a vtStart that is not the
\* zero time.
C33_RecordsPassPresenceChecks ==
    \A k \in DOMAIN vKVs : \A i \in 1..Len(vKVs[k]) :
        /\ vKVs[k][i].Key # "" /\ vKVs[k][i].Key = k
        /\ vKVs[k][i].TxTimeStart # 0
        /\ vKVs[k][i].ValidTimeStart # 0

\* a Set with the zero time as its valid time, on a key that has records, has been
\* turned down by Validate
C33_Witness ==
    \E p \in Procs :
        /\ Returning(p, "set") /\ ret[p] = ErrValidate
        /\ op[p].validTime = 0 /\ op[p].now # 0 /\ op[p].key # ""
        /\ snap[p] # <<>>
        /\ Len(vKVs[op[p].key]) = Len(snap[p])

\* the calls that read
Reads == {"get", "list", "history"}

\* C34: Get, List and History do not change the store: over every step of such a
\* call, from the call to its return, with a result, NotFound or an error, the
\* records of every key, their fields and their order stay as they are.
C34_ReadsChangeNothing ==
    [][\A p \in Procs :
          (op[p].kind \in Reads \/ op'[p].kind \in Reads)
              => vKVs' = vKVs /\ txEndPtr' = txEndPtr]_vars

\* History has returned the records of a key in another order than they are stored
\* in, List has returned a record, and Get has returned NotFound
C34_Witness ==
    \E p \in Procs :
        /\ pc[p] = "sorted"
        /\ ret[p] = ""
        /\ History(vKVs, txEndPtr, op[p].key).out # vKVs[op[p].key]
        /\ Len(History(vKVs, txEndPtr, op[p].key).out) = Len(vKVs[op[p].key])
ListReturned ==
    \E p \in Procs :
        pc[p] = "listed" /\ ret[p] = "" /\ List(vKVs, op[p].validTime, op[p].now).out # {}
GetNotFound == \E p \in Procs : pc[p] = "read" /\ ret[p] = ErrNotFound /\ vKVs[op[p].key] # <<>>

\* the calls that write
Writes == {"set", "delete"}
\* p's Set or Delete of another key than k2 takes this step: from its call to its
\* return op'[p] is the call, or op[p] is
WritesOtherKey(p, k2) ==
    \/ op[p].kind \in Writes /\ op[p].key # k2
    \/ op'[p].kind \in Writes /\ op'[p].key # k2

\* C35: no step of a Set or Delete of a key k closes, adds, removes or changes a
\* record of another key k2: the records of k2 stay as they are, and so do the
\* results of Get(k2) at every valid and transaction time and of History(k2).
C35_OtherKeysUntouched ==
    [][\A p \in Procs : \A k2 \in CallKeys :
          WritesOtherKey(p, k2) =>
              /\ vKVs'[k2] = vKVs[k2]
              /\ txEndPtr'[k2] = txEndPtr[k2]
              /\ \A vt \in QueryTimes, tt \in QueryTimes :
                     Get(vKVs', k2, vt, tt) = Get(vKVs, k2, vt, tt)
              /\ History(vKVs', txEndPtr', k2) = History(vKVs, txEndPtr, k2)]_vars

\* a Set has closed a record of its key and stored its own while another key holds
\* a current record whose valid time meets the window of the Set
C35_Witness ==
    \E p \in Procs : \E k2 \in Keys :
        /\ Succeeded(p, "set")
        /\ k2 # op[p].key
        /\ \E i \in 1..Len(snap[p]) : ToClose(p, snap[p][i])
        /\ \E n \in 1..Len(vKVs[k2]) :
               /\ vKVs[k2][n].TxTimeEnd = Nil
               /\ Overlap(op[p].validTime, op[p].endValidTime,
                          vKVs[k2][n].ValidTimeStart, vKVs[k2][n].ValidTimeEnd)

\* the valid-time map of a key that the store shows at the clock's instant: what
\* Get(k, asOfValidTime = t) returns, a value or NotFound
Shown(kvs, k, t, now) == Seen(Get(kvs, k, t, now))
\* the map after a write of p, last writer wins: the value of a Set, and NotFound
\* for a Delete, in the window of the write, and what was there before elsewhere
LastWriterWins(p, k, t, before) ==
    IF k = op'[p].key /\ Contains(op'[p].validTime, op'[p].endValidTime, t)
    THEN IF op'[p].kind = "set" THEN op'[p].value ELSE ErrNotFound
    ELSE before

\* C36: on a store that started empty, the map t -> Get(key, asOfValidTime = t) at
\* the clock's instant is a valid-time map updated last writer wins: a successful
\* Set puts its value on its window, a successful Delete puts NotFound on its
\* window, both leave the rest of the map as it was when the write began, and no
\* other step (a read, the clock moving on, a rejected call) changes the map.
C36_CurrentLayerIsIntervalMap ==
    [][\A k \in Keys : \A t \in QueryTimes :
          IF \E p \in Procs : pc[p] = "commit"
          THEN \A p \in Procs :
                   (pc[p] = "commit" /\ pc'[p] = "unlock" /\ ret'[p] = "") =>
                       Shown(vKVs', k, t, clock')
                           = LastWriterWins(p, k, t,
                                 Shown([vKVs' EXCEPT ![op'[p].key] = snap'[p]], k, t, clock'))
          ELSE Shown(vKVs', k, t, clock') = Shown(vKVs, k, t, clock)]_vars

\* a Delete with a closed window inside the valid time of a Set has succeeded: Get
\* returns NotFound in the window and the value of the Set before it and after it
C36_Witness ==
    \E p \in Procs :
        /\ Succeeded(p, "delete")
        /\ op[p].endValidTime # Nil
        /\ \E t1, t2, t3 \in QueryTimes :
               /\ t1 < op[p].validTime /\ InWindow(p, t2) /\ t3 >= op[p].endValidTime
               /\ Shown(Before(p), op[p].key, t2, clock) \in Values
               /\ Shown(vKVs, op[p].key, t2, clock) = ErrNotFound
               /\ Shown(vKVs, op[p].key, t1, clock) \in Values
               /\ Shown(vKVs, op[p].key, t3, clock) \in Values

\* the locks a caller holds and the locks it waits for
HoldsStore(p) == m.writer = p \/ p \in m.readers
HoldsClock(p) == cm.writer = p \/ p \in cm.readers
WaitsForStore(p) == pc[p] \in {"lock", "rlock", "list", "history"}
WaitsForClock(p) == pc[p] \in {"now", "setnow"}
\* a caller that is in no call holds no lock, and a caller holds no lock while it
\* waits for one, so that no caller ever holds the two locks
LocksInOrder ==
    \A p \in Procs :
        /\ pc[p] = "idle" => ~HoldsStore(p) /\ ~HoldsClock(p)
        /\ ~(HoldsStore(p) /\ HoldsClock(p))
        /\ (WaitsForStore(p) \/ WaitsForClock(p)) => ~HoldsStore(p) /\ ~HoldsClock(p)

\* C37: under every interleaving of Get, List, Set, Delete, History and
\* TestClock.SetNow calls every call returns: a call has released its locks when it
\* has returned, whatever it returns, no caller waits for one of the two locks
\* while it holds a lock, and every call that has begun comes to its end.
C37_EveryCallCompletes ==
    /\ []LocksInOrder
    /\ \A p \in Procs : (pc[p] # "idle") ~> (pc[p] = "idle")

\* a write waits for the store's lock while the write of the other caller holds
\* it, on its way out with an error
C37_Witness ==
    \E p, q \in Procs :
        /\ pc[p] = "lock" /\ pc[q] = "unlock"
        /\ m.writer = q
        /\ ret[q] # ""
\* a call waits for the clock's lock while TestClock.SetNow holds it
WaitsForSetNow == \E p, q \in Procs : pc[p] = "now" /\ pc[q] = "setting" /\ cm.writer = q
\* an update has stored an overhang
OverhangStored == \E p \in Procs : pc[p] = "unlock" /\ Len(vKVs[op[p].key]) >= Len(snap[p]) + 2

\* the records that a repeat of p's Delete, called at now2 with the options of p's
\* call, finds to close (update, lines 141-146)
RepeatPlan(p, now2) ==
    IF Len(vKVs[op[p].key]) > 0
    THEN findOverlappingValidTimeVersions(vKVs[op[p].key], op[p].optValidTime,
                                          op[p].optEndValidTime, now2)
    ELSE <<>>

\* C38: after a successful Delete with an explicit valid time, the same Delete
\* called again at the same or a later instant, before any other write, passes
\* handleWriteOpts and finds no record to close: it returns no error, closes no
\* record and appends none, so the store stays as it is.
C38_DeleteIdempotent ==
    \A p \in Procs : (Succeeded(p, "delete") /\ op[p].optValidTime # Nil) =>
        \A now2 \in Times : now2 >= clock =>
            /\ handleWriteOpts(op[p].optValidTime, op[p].optEndValidTime, now2).err = ""
            /\ RepeatPlan(p, now2) = <<>>

\* a Delete with an explicit window has closed a record and stored its overhang
DeleteWithOverhang ==
    \E p \in Procs :
        /\ Succeeded(p, "delete") /\ op[p].optValidTime # Nil
        /\ \E i \in 1..Len(snap[p]) : vKVs[op[p].key][i] # snap[p][i]
        /\ Len(vKVs[op[p].key]) > Len(snap[p])

====
